---- MODULE Spec2Model ----
(***************************************************************************)
(* A model of @dep/command: the declaration validator, the token scan of   *)
(* parseRuntime, the post-scan validation, Command.parse and the runner.   *)
(*                                                                         *)
(* A JavaScript string is modelled as the sequence of its characters (each *)
(* a one-character TLA+ string), so that startsWith, includes, split and   *)
(* the kebabToCamelCase rewriting are computed as the code computes them.  *)
(* A JavaScript value (undefined | true | string | string[]) is a record   *)
(* [t, s, l] with t the tag, s the characters of a string and l the        *)
(* elements of a list.                                                     *)
(***************************************************************************)
EXTENDS Integers, Sequences, FiniteSets, TLC

\* ------------------------------------------------------------------------
\* Characters and strings
\* ------------------------------------------------------------------------

Lower == <<"a","b","c","d","e","f","g","h","i","j","k","l","m",
           "n","o","p","q","r","s","t","u","v","w","x","y","z">>

UpperOf == <<"A","B","C","D","E","F","G","H","I","J","K","L","M",
             "N","O","P","Q","R","S","T","U","V","W","X","Y","Z">>

Digits == {"0","1","2","3","4","5","6","7","8","9"}

Range(f) == { f[i] : i \in DOMAIN f }

IsLetter(c) == c \in Range(Lower) \/ c \in Range(UpperOf)

\* String.prototype.toUpperCase on one character
ToUpperCase(c) ==
    IF c \in Range(Lower)
    THEN UpperOf[CHOOSE i \in DOMAIN Lower : Lower[i] = c]
    ELSE c

IsSpace(c) == c \in {" ", "\t", "\n"}

\* s.slice(i) with a 0-based index
Slice(s, i) == IF i >= Len(s) THEN <<>> ELSE SubSeq(s, i + 1, Len(s))

\* s.startsWith(p)
StartsWith(s, p) == Len(s) >= Len(p) /\ SubSeq(s, 1, Len(p)) = p

\* s.includes(p), for strings and (with p a one-element list) for arrays
Includes(s, p) ==
    \E i \in 0..(Len(s) - Len(p)) : SubSeq(s, i + 1, i + Len(p)) = p

\* array.includes(x)
Contains(list, x) == \E i \in DOMAIN list : list[i] = x

\* array.indexOf(x), 0-based, -1 when absent
IndexOf(list, x) ==
    IF Contains(list, x)
    THEN (CHOOSE i \in DOMAIN list :
              list[i] = x /\ \A j \in 1..(i - 1) : list[j] # x) - 1
    ELSE -1

\* String.prototype.trim
RECURSIVE TrimLeft(_)
TrimLeft(s) ==
    IF s # <<>> /\ IsSpace(Head(s)) THEN TrimLeft(Tail(s)) ELSE s

RECURSIVE TrimRight(_)
TrimRight(s) ==
    IF s # <<>> /\ IsSpace(s[Len(s)])
    THEN TrimRight(SubSeq(s, 1, Len(s) - 1))
    ELSE s

Trim(s) == TrimRight(TrimLeft(s))

\* .replace(/^-+/, '')
RECURSIVE StripLeadingDashes(_)
StripLeadingDashes(s) ==
    IF s # <<>> /\ Head(s) = "-" THEN StripLeadingDashes(Tail(s)) ELSE s

\* .replace(/-./g, (match) => match.charAt(1).toUpperCase()): the matches are
\* taken left to right and do not overlap
RECURSIVE ReplaceDashChar(_)
ReplaceDashChar(s) ==
    IF s = <<>> THEN <<>>
    ELSE IF Head(s) = "-" /\ Len(s) >= 2 /\ s[2] # "\n"
         THEN <<ToUpperCase(s[2])>> \o ReplaceDashChar(Slice(s, 2))
         ELSE <<Head(s)>> \o ReplaceDashChar(Tail(s))

\* .replaceAll('-', '')
RECURSIVE RemoveDashes(_)
RemoveDashes(s) ==
    IF s = <<>> THEN <<>>
    ELSE IF Head(s) = "-" THEN RemoveDashes(Tail(s))
         ELSE <<Head(s)>> \o RemoveDashes(Tail(s))

kebabToCamelCase(token) ==
    RemoveDashes(ReplaceDashChar(StripLeadingDashes(Trim(token))))

isFlag(token) == StartsWith(token, <<"-">>)

isInlineOption(token) == Includes(token, <<"=">>)

isOption(token) == isFlag(token) \/ isInlineOption(token)

\* s.split('=')[1]: the text between the first and the second "=";
\* only used on a string that holds an "="
RECURSIVE UpToEquals(_)
UpToEquals(s) ==
    IF s = <<>> \/ Head(s) = "=" THEN <<>>
    ELSE <<Head(s)>> \o UpToEquals(Tail(s))

SplitEqualsSecond(s) ==
    UpToEquals(Slice(s, Len(UpToEquals(s)) + 1))

\* ------------------------------------------------------------------------
\* JavaScript values
\* ------------------------------------------------------------------------

Undefined == [t |-> "undef", s |-> <<>>, l |-> <<>>]

True == [t |-> "bool", s |-> <<>>, l |-> <<>>]

Str(chars) == [t |-> "str", s |-> chars, l |-> <<>>]

List(elems) == [t |-> "list", s |-> <<>>, l |-> elems]

\* ToBoolean: undefined and "" are falsy, true and every array are truthy
Truthy(v) == v.t = "bool" \/ v.t = "list" \/ (v.t = "str" /\ v.s # <<>>)

isArray(v) == v.t = "list"

\* obj[key] of a Record<string, ...>: undefined for a missing key
Get(obj, key) == IF key \in DOMAIN obj THEN obj[key] ELSE Undefined

\* Object.assign(target, source) on records
ObjectAssign(target, source) ==
    [k \in (DOMAIN target) \cup (DOMAIN source) |->
        IF k \in DOMAIN source THEN source[k] ELSE target[k]]

EmptyObject == [k \in {} |-> Undefined]

\* ------------------------------------------------------------------------
\* Declarations (core/types.ts) and the builder (core/builder.ts)
\* ------------------------------------------------------------------------

\* A field the declaration leaves out is undefined: shortFlag <<>>, default
\* Undefined, hasChoices FALSE.
OptionDefaults(longFlag) ==
    [longFlag |-> longFlag, kind |-> "value", optional |-> FALSE,
     shortFlag |-> <<>>, default |-> Undefined,
     hasChoices |-> FALSE, choices |-> <<>>]

\* CommandBuilder.option: {longFlag, kind: 'value', optional: false}
\* overwritten by the fields of config
BuilderOption(longFlag, config) == config @@ OptionDefaults(longFlag)

ArgumentDefaults(name) ==
    [name |-> name, kind |-> "value", optional |-> FALSE,
     default |-> Undefined, hasChoices |-> FALSE, choices |-> <<>>]

\* CommandBuilder.argument
BuilderArgument(name, config) == config @@ ArgumentDefaults(name)

\* CommandBuilder.#config as constructed, with the name set by name()
NewConfig(name) ==
    [name |-> name, aliases |-> <<>>, options |-> <<>>, arguments |-> <<>>,
     handlers |-> 0, subcommands |-> <<>>,
     hidden |-> [help |-> FALSE, version |-> FALSE]]

\* ------------------------------------------------------------------------
\* Errors: one CommandError kind, told apart by the message
\* ------------------------------------------------------------------------

NoError == "none"

DeclErrors ==
    {"Command name is required", "name format", "Duplicate alias",
     "Argument name is required", "Duplicate argument name",
     "argument default not in choices", "argument default on required",
     "argument default array", "Option longFlag is required",
     "Invalid Long flag", "Invalid Short flag", "Duplicate option longFlag",
     "Duplicate shortFlag", "option default not in choices",
     "option default on required", "Subcommand name is required",
     "Duplicate subcommand name"}

TokenErrors == {"Unknown option", "Unexpected option", "Unexpected argument"}

RequiredErrors == {"Required option is missing", "Required argument is missing"}

ChoiceErrors == {"invalid option choice", "invalid argument choice"}

\* ------------------------------------------------------------------------
\* Declaration validation (helpers/validate)
\* ------------------------------------------------------------------------

IsNameChar(c) == IsLetter(c) \/ c \in Digits \/ c \in {"_", "-"}

\* /^[a-zA-Z][a-zA-Z0-9_-]*$/
checkNameFormat(name) ==
    /\ name # <<>>
    /\ IsLetter(name[1])
    /\ \A i \in 2..Len(name) : IsNameChar(name[i])

validateName(name) ==
    IF name = <<>> THEN "Command name is required"
    ELSE IF ~checkNameFormat(name) THEN "name format"
    ELSE NoError

RECURSIVE validateAliasesFrom(_, _, _)
validateAliasesFrom(aliases, i, seenAliases) ==
    IF i > Len(aliases) THEN NoError
    ELSE IF ~checkNameFormat(aliases[i]) THEN "name format"
    ELSE IF aliases[i] \in seenAliases THEN "Duplicate alias"
    ELSE validateAliasesFrom(aliases, i + 1, seenAliases \cup {aliases[i]})

validateAliases(aliases) == validateAliasesFrom(aliases, 1, {})

\* Array.isArray(d) ? d : [d]
AsList(v) == IF isArray(v) THEN v.l ELSE <<v.s>>

\* !choices.some((choice) => defaultValues.includes(choice))
DefaultOutsideChoices(decl) ==
    ~(\E i \in DOMAIN decl.choices :
          Contains(AsList(decl.default), decl.choices[i]))

RECURSIVE validateArgumentsFrom(_, _, _)
validateArgumentsFrom(args, i, argNames) ==
    IF i > Len(args) THEN NoError
    ELSE LET arg == args[i] IN
         IF arg.name = <<>> THEN "Argument name is required"
         ELSE IF ~checkNameFormat(arg.name) THEN "name format"
         ELSE IF arg.name \in argNames THEN "Duplicate argument name"
         ELSE IF arg.hasChoices /\ Truthy(arg.default)
                 /\ DefaultOutsideChoices(arg)
              THEN "argument default not in choices"
         ELSE IF ~arg.optional /\ Truthy(arg.default)
              THEN "argument default on required"
         ELSE IF arg.kind # "variadic" /\ Truthy(arg.default)
                 /\ isArray(arg.default)
              THEN "argument default array"
         ELSE validateArgumentsFrom(args, i + 1, argNames \cup {arg.name})

validateArguments(args) == validateArgumentsFrom(args, 1, {})

\* /^[a-zA-Z-][a-zA-Z0-9_-]*$/, skipped for an undefined or empty name
validateOptionFormat(name) ==
    name = <<>>
    \/ /\ (IsLetter(name[1]) \/ name[1] = "-")
       /\ \A i \in 2..Len(name) : IsNameChar(name[i])

RECURSIVE validateOptionsFrom(_, _, _)
validateOptionsFrom(options, i, optionNames) ==
    IF i > Len(options) THEN NoError
    ELSE LET opt == options[i]
             withLong == optionNames \cup {opt.longFlag}
             withShort == IF opt.shortFlag # <<>>
                          THEN withLong \cup {opt.shortFlag}
                          ELSE withLong
         IN
         IF opt.longFlag = <<>> THEN "Option longFlag is required"
         ELSE IF ~validateOptionFormat(opt.longFlag) THEN "Invalid Long flag"
         ELSE IF ~validateOptionFormat(opt.shortFlag) THEN "Invalid Short flag"
         ELSE IF opt.longFlag \in optionNames THEN "Duplicate option longFlag"
         ELSE IF opt.shortFlag # <<>> /\ opt.shortFlag \in withLong
              THEN "Duplicate shortFlag"
         ELSE IF opt.kind \in {"value", "variadic", "inline"}
                 /\ opt.hasChoices /\ Truthy(opt.default)
                 /\ DefaultOutsideChoices(opt)
              THEN "option default not in choices"
         ELSE IF opt.kind \in {"value", "variadic", "inline"}
                 /\ ~opt.optional /\ Truthy(opt.default)
              THEN "option default on required"
         ELSE validateOptionsFrom(options, i + 1, withShort)

\* validateOptions with a fresh optionNames set for every option
validateOptions_EachAlone(options) ==
    LET alone(i) == validateOptionsFrom(<<options[i]>>, 1, {})
        bad == { i \in DOMAIN options : alone(i) # NoError }
    IN IF bad = {} THEN NoError
       ELSE alone(CHOOSE i \in bad : \A j \in bad : i <= j)

validateOptions(options) == validateOptionsFrom(options, 1, {})

RECURSIVE validateConfig(_, _)
RECURSIVE validateSubcommandsFrom(_, _, _, _)
validateSubcommandsFrom(cs, subcommands, i, subcommandNames) ==
    IF i > Len(subcommands) THEN NoError
    ELSE LET subConfig == cs[subcommands[i]] IN
         IF subConfig.name = <<>> THEN "Subcommand name is required"
         ELSE IF subConfig.name \in subcommandNames
              THEN "Duplicate subcommand name"
         ELSE LET e == validateConfig(cs, subConfig) IN
              IF e # NoError THEN e
              ELSE validateSubcommandsFrom(cs, subcommands, i + 1,
                       subcommandNames \cup {subConfig.name})

validateSubcommands(cs, subcommands) ==
    validateSubcommandsFrom(cs, subcommands, 1, {})

\* cs is the command tree: command id -> configuration; a configuration
\* names its subcommands by id
validateConfig(cs, config) ==
    LET e1 == validateName(config.name)
        e2 == validateAliases(config.aliases)
        e3 == validateArguments(config.arguments)
        e4 == validateOptions(config.options)
    IN IF e1 # NoError THEN e1
       ELSE IF e2 # NoError THEN e2
       ELSE IF e3 # NoError THEN e3
       ELSE IF e4 # NoError THEN e4
       ELSE validateSubcommands(cs, config.subcommands)

\* ------------------------------------------------------------------------
\* Token matchers (helpers/utils.ts, helpers/parse/option.ts, argument.ts)
\* ------------------------------------------------------------------------

isSubcommand(cs, token, subcommands) ==
    \E i \in DOMAIN subcommands :
        \/ cs[subcommands[i]].name = token
        \/ Contains(cs[subcommands[i]].aliases, token)

\* The collector stopping at option-shaped tokens only
RECURSIVE handlerVariadic_OptionsOnly(_, _, _)
handlerVariadic_OptionsOnly(cs, tokens, subcommand) ==
    IF tokens = <<>> THEN <<>>
    ELSE IF isOption(Head(tokens))
         THEN <<>>
         ELSE <<Head(tokens)>>
                  \o handlerVariadic_OptionsOnly(cs, Tail(tokens), subcommand)

\* for (const token of tokens) { if (isSubcommand || isOption) break; push }
RECURSIVE handlerVariadic(_, _, _)
handlerVariadic(cs, tokens, subcommand) ==
    IF tokens = <<>> THEN <<>>
    ELSE IF isSubcommand(cs, Head(tokens), subcommand) \/ isOption(Head(tokens))
         THEN <<>>
         ELSE <<Head(tokens)>> \o handlerVariadic(cs, Tail(tokens), subcommand)

\* the predicate of optionDefs.find in parseCommandOption
OptionMatches(opt, flagName) ==
    \/ /\ opt.longFlag # <<>>
       /\ \/ kebabToCamelCase(opt.longFlag) = flagName
          \/ Includes(flagName, kebabToCamelCase(opt.longFlag) \o <<"=">>)
    \/ /\ opt.shortFlag # <<>>
       /\ \/ kebabToCamelCase(opt.shortFlag) = flagName
          \/ Includes(flagName, kebabToCamelCase(opt.shortFlag) \o <<"=">>)

\* optionDefs.find(...): the index of the first match, 0 when there is none
FindOption(optionDefs, flagName) ==
    IF \E i \in DOMAIN optionDefs : OptionMatches(optionDefs[i], flagName)
    THEN CHOOSE i \in DOMAIN optionDefs :
             /\ OptionMatches(optionDefs[i], flagName)
             /\ \A j \in 1..(i - 1) : ~OptionMatches(optionDefs[j], flagName)
    ELSE 0

\* tokens[i] with a 0-based index: undefined past the end
TokenAt(tokens, i) ==
    IF i >= 0 /\ i < Len(tokens) THEN Str(tokens[i + 1]) ELSE Undefined

\* The switch of parseCommandOption with a variadic option reporting the
\* collected values only, its own flag token left out of `consumed`
OptionValueOf_CollectedOnly(cs, matchedOption, token, flagName, tokens, config) ==
    LET index == IndexOf(tokens, token)
        null == [isNull |-> TRUE, value |-> Undefined, consumed |-> 0]
        collected == handlerVariadic(cs, Slice(tokens, index + 1),
                                     config.subcommands)
    IN CASE matchedOption.kind = "value" /\ isFlag(token) ->
              [isNull |-> FALSE, value |-> TokenAt(tokens, index + 1),
               consumed |-> 2]
         [] matchedOption.kind = "inline" /\ isInlineOption(flagName) ->
              [isNull |-> FALSE, value |-> Str(SplitEqualsSecond(flagName)),
               consumed |-> 1]
         [] matchedOption.kind = "variadic" /\ isFlag(token) ->
              [isNull |-> FALSE, value |-> List(collected),
               consumed |-> Len(collected)]
         [] matchedOption.kind = "flag" /\ isFlag(token) ->
              [isNull |-> FALSE, value |-> True, consumed |-> 1]
         [] OTHER -> null

\* The switch of parseCommandOption: [isNull, value, consumed]; isNull is
\* optionValue === null after the switch
OptionValueOf(cs, matchedOption, token, flagName, tokens, config) ==
    LET index == IndexOf(tokens, token)
        null == [isNull |-> TRUE, value |-> Undefined, consumed |-> 0]
    IN CASE matchedOption.kind = "value" ->
              IF isFlag(token)
              THEN [isNull |-> FALSE, value |-> TokenAt(tokens, index + 1),
                    consumed |-> 2]
              ELSE null
         [] matchedOption.kind = "inline" ->
              IF isInlineOption(flagName)
              THEN [isNull |-> FALSE,
                    value |-> Str(SplitEqualsSecond(flagName)),
                    consumed |-> 1]
              ELSE null
         [] matchedOption.kind = "variadic" ->
              IF isFlag(token)
              THEN LET collected ==
                           handlerVariadic(cs, Slice(tokens, index + 1),
                                           config.subcommands)
                   IN [isNull |-> FALSE, value |-> List(collected),
                       consumed |-> Len(collected) + 1]
              ELSE null
         [] matchedOption.kind = "flag" ->
              IF isFlag(token)
              THEN [isNull |-> FALSE, value |-> True, consumed |-> 1]
              ELSE null
         [] OTHER -> null

\* parseCommandOption(token, tokens, config): [err, key, value, consumed]
parseCommandOption(cs, token, tokens, config) ==
    LET flagName == kebabToCamelCase(token)
        m == FindOption(config.options, flagName)
        none == [err |-> "Unknown option", key |-> <<>>,
                 value |-> Undefined, consumed |-> 0]
    IN IF m = 0 THEN none
       ELSE LET matchedOption == config.options[m]
                r == OptionValueOf(cs, matchedOption, token, flagName,
                                   tokens, config)
            IN IF r.isNull
               THEN [none EXCEPT !.err = "Unexpected option"]
               ELSE [err |-> NoError,
                     key |-> kebabToCamelCase(matchedOption.longFlag),
                     value |-> r.value, consumed |-> r.consumed]

\* parseCommandArgument(tokens, config, argIndex): [err, key, value, consumed]
parseCommandArgument(cs, tokens, config, argIndex) ==
    IF argIndex >= Len(config.arguments)
    THEN [err |-> "Unexpected argument", key |-> <<>>,
          value |-> Undefined, consumed |-> 0]
    ELSE LET argDef == config.arguments[argIndex + 1]
             argumentValue ==
                 CASE argDef.kind = "value" -> TokenAt(tokens, 0)
                   [] argDef.kind = "variadic" ->
                        List(handlerVariadic(cs, tokens, config.subcommands))
                   [] OTHER -> Undefined
         IN [err |-> NoError, key |-> kebabToCamelCase(argDef.name),
             value |-> argumentValue,
             consumed |-> IF isArray(argumentValue)
                          THEN Len(argumentValue.l) ELSE 1]

\* ------------------------------------------------------------------------
\* parseRuntime (helpers/parse/index.ts)
\* ------------------------------------------------------------------------

T_sep == <<"-", "-">>
T_help == <<"-", "-", "h", "e", "l", "p">>
T_h == <<"-", "h">>
T_version == <<"-", "-", "v", "e", "r", "s", "i", "o", "n">>
T_v == <<"-", "v">>

EmptyInput == [args |-> EmptyObject, options |-> EmptyObject, unparsed |-> <<>>]

\* The locals of parseRuntime after validateConfig: input, argIndex and
\* tokenIndex; phase is where control is (scan: in the while loop, post: at
\* the post-scan loops, returned, failed); stop is how the scan ended
ScanStart ==
    [phase |-> "scan", stop |-> "none", err |-> NoError,
     tokenIndex |-> 0, argIndex |-> 0, input |-> EmptyInput]

\* the `--` branch of the loop
\* The "--" branch stepping over the token and scanning on
ScanSeparator_ScansOn(tokens, st) ==
    [st EXCEPT !.tokenIndex = @ + 1]

\* The "--" branch with the separator left in the tail
ScanSeparator_KeepsSeparator(tokens, st) ==
    [st EXCEPT !.input.unparsed = Slice(tokens, st.tokenIndex),
               !.phase = "post", !.stop = "separator"]

ScanSeparator(tokens, st) ==
    [st EXCEPT !.input.unparsed = Slice(tokens, st.tokenIndex + 1),
               !.phase = "post", !.stop = "separator"]

\* ScanOption without the two early returns on the built-in flags
ScanOption_NoEarlyReturn(cs, config, tokens, st) ==
    LET token == tokens[st.tokenIndex + 1]
        r == parseCommandOption(cs, token, Slice(tokens, st.tokenIndex), config)
    IN IF r.err # NoError
       THEN [st EXCEPT !.phase = "failed", !.err = r.err]
       ELSE [st EXCEPT !.input.options =
                           ObjectAssign(st.input.options, (r.key :> r.value)),
                       !.tokenIndex = st.tokenIndex + r.consumed]

\* the isOption branch of the loop
ScanOption(cs, config, tokens, st) ==
    LET token == tokens[st.tokenIndex + 1]
        r == parseCommandOption(cs, token, Slice(tokens, st.tokenIndex), config)
        assigned == [st EXCEPT !.input.options =
                        ObjectAssign(st.input.options, (r.key :> r.value))]
    IN IF r.err # NoError
       THEN [st EXCEPT !.phase = "failed", !.err = r.err]
       ELSE IF ~config.hidden.version /\ token \in {T_version, T_v}
       THEN [assigned EXCEPT !.phase = "returned", !.stop = "version"]
       ELSE IF ~config.hidden.help /\ token \in {T_help, T_h}
       THEN [assigned EXCEPT !.phase = "returned", !.stop = "help"]
       ELSE [assigned EXCEPT !.tokenIndex = st.tokenIndex + r.consumed]

\* the isSubcommand branch of the loop
ScanSubcommand(tokens, st) ==
    [st EXCEPT !.input.unparsed = Slice(tokens, st.tokenIndex),
               !.phase = "post", !.stop = "subcommand"]

\* The positional branch without the argIndex++ that follows it
ScanArgument_SameSlot(cs, config, tokens, st) ==
    LET r == parseCommandArgument(cs, Slice(tokens, st.tokenIndex), config,
                                  st.argIndex)
    IN IF r.err # NoError
       THEN [st EXCEPT !.phase = "failed", !.err = r.err]
       ELSE [st EXCEPT !.input.args =
                           ObjectAssign(st.input.args, (r.key :> r.value)),
                       !.tokenIndex = st.tokenIndex + r.consumed]

\* the positional branch of the loop
ScanArgument(cs, config, tokens, st) ==
    LET r == parseCommandArgument(cs, Slice(tokens, st.tokenIndex), config,
                                  st.argIndex)
    IN IF r.err # NoError
       THEN [st EXCEPT !.phase = "failed", !.err = r.err]
       ELSE [st EXCEPT !.input.args =
                           ObjectAssign(st.input.args, (r.key :> r.value)),
                       !.tokenIndex = st.tokenIndex + r.consumed,
                       !.argIndex = st.argIndex + 1]

\* Which branch the loop body takes on the current token
ScanBranch(cs, config, tokens, st) ==
    LET token == tokens[st.tokenIndex + 1] IN
    IF token = T_sep THEN "separator"
    ELSE IF isOption(token) THEN "option"
    ELSE IF isSubcommand(cs, token, config.subcommands) THEN "subcommand"
    ELSE "argument"

\* One pass through the while loop (the condition included)
ScanStep(cs, config, tokens, st) ==
    IF st.tokenIndex >= Len(tokens)
    THEN [st EXCEPT !.phase = "post", !.stop = "exhausted"]
    ELSE LET b == ScanBranch(cs, config, tokens, st) IN
         CASE b = "separator" -> ScanSeparator(tokens, st)
           [] b = "option" -> ScanOption(cs, config, tokens, st)
           [] b = "subcommand" -> ScanSubcommand(tokens, st)
           [] OTHER -> ScanArgument(cs, config, tokens, st)

\* const valuesToCheck = Array.isArray(value) ? value : value ? [value] : []
ValuesToCheck(value) ==
    IF isArray(value) THEN value.l
    ELSE IF Truthy(value) THEN <<value.s>> ELSE <<>>

\* validateChoices: TRUE when it throws
validateChoices(value, choices) ==
    \E i \in DOMAIN ValuesToCheck(value) :
        ~Contains(choices, ValuesToCheck(value)[i])

\* The test for substituting a default without its `!cur` half
MissingOrEmpty_EmptyListOnly(cur) == isArray(cur) /\ cur.l = <<>>

\* if (!cur || (Array.isArray(cur) && cur.length === 0))
MissingOrEmpty(cur) == ~Truthy(cur) \/ (isArray(cur) /\ cur.l = <<>>)

\* The body of the post-scan loop over config.options without its
\* required test
PostOption_NoRequired(option, options) ==
    IF option.kind \notin {"inline", "variadic", "value"}
    THEN [err |-> NoError, options |-> options]
    ELSE LET key == kebabToCamelCase(option.longFlag)
             optionValue == Get(options, key)
             withDefault ==
                 IF Truthy(option.default) /\ MissingOrEmpty(Get(options, key))
                 THEN ObjectAssign(options, (key :> option.default))
                 ELSE options
         IN IF option.hasChoices /\ optionValue.t # "bool"
               /\ validateChoices(optionValue, option.choices)
            THEN [err |-> "invalid option choice", options |-> withDefault]
            ELSE [err |-> NoError, options |-> withDefault]

\* The body of the post-scan loop over config.options, for one option:
\* [err, options]
PostOption(option, options) ==
    IF option.kind \notin {"inline", "variadic", "value"}
    THEN [err |-> NoError, options |-> options]
    ELSE LET key == kebabToCamelCase(option.longFlag)
             optionValue == Get(options, key)
             withDefault ==
                 IF Truthy(option.default) /\ MissingOrEmpty(Get(options, key))
                 THEN ObjectAssign(options, (key :> option.default))
                 ELSE options
         IN IF ~Truthy(Get(options, key)) /\ ~option.optional
            THEN [err |-> "Required option is missing", options |-> options]
            ELSE IF option.hasChoices /\ optionValue.t # "bool"
                    /\ validateChoices(optionValue, option.choices)
            THEN [err |-> "invalid option choice", options |-> withDefault]
            ELSE [err |-> NoError, options |-> withDefault]

\* The body of the post-scan loop over config.arguments, for one argument:
\* [err, args]
PostArgument(argument, args) ==
    LET key == kebabToCamelCase(argument.name)
        argValue == Get(args, key)
        withDefault ==
            IF Truthy(argument.default) /\ MissingOrEmpty(argValue)
            THEN ObjectAssign(args, (key :> argument.default))
            ELSE args
    IN IF ~Truthy(argValue) /\ ~argument.optional
       THEN [err |-> "Required argument is missing", args |-> args]
       ELSE IF argument.hasChoices
               /\ validateChoices(argValue, argument.choices)
       THEN [err |-> "invalid argument choice", args |-> withDefault]
       ELSE [err |-> NoError, args |-> withDefault]

RECURSIVE PostOptionsFrom(_, _, _)
PostOptionsFrom(optionDefs, i, options) ==
    IF i > Len(optionDefs) THEN [err |-> NoError, options |-> options]
    ELSE LET r == PostOption(optionDefs[i], options) IN
         IF r.err # NoError THEN r
         ELSE PostOptionsFrom(optionDefs, i + 1, r.options)

RECURSIVE PostArgumentsFrom(_, _, _)
PostArgumentsFrom(argDefs, i, args) ==
    IF i > Len(argDefs) THEN [err |-> NoError, args |-> args]
    ELSE LET r == PostArgument(argDefs[i], args) IN
         IF r.err # NoError THEN r
         ELSE PostArgumentsFrom(argDefs, i + 1, r.args)

\* The two loops after the scan, then `return input`
PostScan(config, st) ==
    LET o == PostOptionsFrom(config.options, 1, st.input.options)
        a == PostArgumentsFrom(config.arguments, 1, st.input.args)
    IN IF o.err # NoError
       THEN [st EXCEPT !.phase = "failed", !.err = o.err]
       ELSE IF a.err # NoError
       THEN [st EXCEPT !.phase = "failed", !.err = a.err,
                       !.input.options = o.options]
       ELSE [st EXCEPT !.phase = "returned",
                       !.input.options = o.options, !.input.args = a.args]

\* parseRuntime from the first loop test to its return or throw
RECURSIVE ParseFrom(_, _, _, _)
ParseFrom(cs, config, tokens, st) ==
    CASE st.phase = "scan" ->
             ParseFrom(cs, config, tokens, ScanStep(cs, config, tokens, st))
      [] st.phase = "post" -> PostScan(config, st)
      [] OTHER -> st

\* parseRuntime(config, tokens)
parseRuntime(cs, config, tokens) ==
    LET e == validateConfig(cs, config) IN
    IF e # NoError
    THEN [ScanStart EXCEPT !.phase = "failed", !.err = e]
    ELSE ParseFrom(cs, config, tokens, ScanStart)

\* ------------------------------------------------------------------------
\* Strings of the scenarios
\* ------------------------------------------------------------------------

S_output == <<"-", "-", "o", "u", "t", "p", "u", "t">>

S_o == <<"-", "o">>

S_dry_run == <<"-", "-", "d", "r", "y", "-", "r", "u", "n">>

S_n == <<"-", "n">>

S_mode == <<"-", "-", "m", "o", "d", "e">>

S_tags == <<"-", "-", "t", "a", "g", "s">>

S_config == <<"-", "-", "c", "o", "n", "f", "i", "g">>

S_message == <<"-", "-", "m", "e", "s", "s", "a", "g", "e">>

S_m == <<"-", "m">>

S_verbose == <<"-", "-", "v", "e", "r", "b", "o", "s", "e">>

S_bogus == <<"-", "-", "b", "o", "g", "u", "s">>

S_x == <<"x">>

S_app == <<"a", "p", "p">>

S_dev == <<"d", "e", "v">>

S_prod == <<"p", "r", "o", "d">>

S_bad == <<"b", "a", "d">>

S_a == <<"a">>

S_b == <<"b">>

S_msg == <<"m", "s", "g">>

S_build == <<"b", "u", "i", "l", "d">>

S_commit == <<"c", "o", "m", "m", "i", "t">>

S_c == <<"c">>

S_push == <<"p", "u", "s", "h">>

S_git == <<"g", "i", "t">>

S_serve == <<"s", "e", "r", "v", "e">>

S_run == <<"r", "u", "n">>

S_entry == <<"e", "n", "t", "r", "y">>

S_files == <<"f", "i", "l", "e", "s">>

S_env == <<"e", "n", "v">>

S_remote == <<"r", "e", "m", "o", "t", "e">>

S_kv == <<"k", "=", "v">>

S_output_dist == <<"-", "-", "o", "u", "t", "p", "u", "t", "=", "d", "i", "s", "t", "/">>

S_dist == <<"d", "i", "s", "t", "/">>

S_output_a_b == <<"-", "-", "o", "u", "t", "p", "u", "t", "=", "a", "-", "b">>

S_a_b == <<"a", "-", "b">>

S_output_a_eq_b == <<"-", "-", "o", "u", "t", "p", "u", "t", "=", "a", "=", "b">>

S_a_eq_b == <<"a", "=", "b">>

S_output_eq == <<"-", "-", "o", "u", "t", "p", "u", "t", "=">>

S_o_eq_x == <<"-", "o", "=", "x">>

S_config_dev == <<"-", "-", "c", "o", "n", "f", "i", "g", "=", "d", "e", "v">>

S_config_bad == <<"-", "-", "c", "o", "n", "f", "i", "g", "=", "b", "a", "d">>

S_config_a_b == <<"-", "-", "c", "o", "n", "f", "i", "g", "=", "a", "-", "b">>

S_config_eq == <<"-", "-", "c", "o", "n", "f", "i", "g", "=">>

S_long_o == <<"-", "-", "o">>

S_put == <<"-", "-", "p", "u", "t">>

S_put_x == <<"-", "-", "p", "u", "t", "=", "x">>

S_output_x == <<"-", "-", "o", "u", "t", "p", "u", "t", "=", "x">>

S_region == <<"-", "-", "r", "e", "g", "i", "o", "n">>

S_region_a_b == <<"-", "-", "r", "e", "g", "i", "o", "n", "=", "a", "-", "b">>

\* ------------------------------------------------------------------------
\* Scenarios: command trees built through the builder, and the tokens tried
\* on them.  A tree is a sequence of configurations; command 1 is the root
\* Command, a configuration names its subcommands by their index.
\* ------------------------------------------------------------------------

MaxTokens == 3

\* The number of parse/run calls made on one command
MaxCalls == 2

\* All token lists of length at most n over a pool
RECURSIVE TokenLists(_, _)
TokenLists(pool, n) ==
    IF n = 0 THEN {<<>>}
    ELSE LET shorter == TokenLists(pool, n - 1) IN
         shorter \cup { Append(l, tk) : l \in shorter, tk \in pool }

O_output ==
    BuilderOption(S_output, [kind |-> "value", shortFlag |-> S_o])

O_dry_run ==
    BuilderOption(S_dry_run, [kind |-> "flag", shortFlag |-> S_n])

A_entry == BuilderArgument(S_entry, [kind |-> "value"])

\* new Command().name('build').option('--output', ...).option('--dry-run',
\* ...).argument('entry').handler(...), with hide() called as told
BuildTree(hideHelp, hideVersion) ==
    << [NewConfig(S_build) EXCEPT
          !.options = <<O_output, O_dry_run>>,
          !.arguments = <<A_entry>>,
          !.handlers = 1,
          !.hidden = [help |-> hideHelp, version |-> hideVersion]] >>

\* The git example: commit (alias c) with a required --message, and push
GitTree ==
    << [NewConfig(S_git) EXCEPT
          !.options = <<BuilderOption(S_verbose, [kind |-> "flag"])>>,
          !.handlers = 1,
          !.subcommands = <<2, 3>>],
       [NewConfig(S_commit) EXCEPT
          !.aliases = <<S_c>>,
          !.options = <<BuilderOption(S_message,
                            [kind |-> "value", shortFlag |-> S_m])>>,
          !.handlers = 2],
       [NewConfig(S_push) EXCEPT
          !.arguments = <<BuilderArgument(S_remote,
                              [kind |-> "variadic", optional |-> TRUE])>>,
          !.handlers = 1] >>

\* A variadic argument and a variadic option next to a subcommand
VariadicTree ==
    << [NewConfig(S_run) EXCEPT
          !.options = <<BuilderOption(S_tags,
                            [kind |-> "variadic", optional |-> TRUE])>>,
          !.arguments = <<BuilderArgument(S_files, [kind |-> "variadic"])>>,
          !.handlers = 1,
          !.subcommands = <<2>>],
       [NewConfig(S_push) EXCEPT
          !.arguments = <<BuilderArgument(S_files,
                              [kind |-> "variadic", optional |-> TRUE])>>,
          !.handlers = 1] >>

\* Every field optional, with choices and a default among them
ChoiceTree ==
    << [NewConfig(S_serve) EXCEPT
          !.options =
              <<BuilderOption(S_mode,
                    [kind |-> "value", optional |-> TRUE,
                     hasChoices |-> TRUE, choices |-> <<S_dev, S_prod>>,
                     default |-> Str(S_dev)]),
                BuilderOption(S_tags,
                    [kind |-> "variadic", optional |-> TRUE,
                     hasChoices |-> TRUE, choices |-> <<S_a, S_b>>,
                     default |-> List(<<S_a>>)]),
                BuilderOption(S_region,
                    [kind |-> "inline", optional |-> TRUE,
                     hasChoices |-> TRUE, choices |-> <<S_dev, S_a_b>>,
                     default |-> Str(S_dev)])>>,
          !.arguments =
              <<BuilderArgument(S_env,
                    [kind |-> "value", optional |-> TRUE,
                     hasChoices |-> TRUE, choices |-> <<S_dev, S_prod>>,
                     default |-> Str(S_prod)])>>] >>

\* One optional inline option (the --config=path example of the README),
\* with a default
InlineTree ==
    << [NewConfig(S_build) EXCEPT
          !.options = <<BuilderOption(S_output,
                            [kind |-> "inline", optional |-> TRUE,
                             shortFlag |-> S_o, default |-> Str(S_a_b)])>>] >>

\* Required fields of the kinds the build example lacks, after an optional
\* option with choices
RequiredTree ==
    << [NewConfig(S_run) EXCEPT
          !.options = <<BuilderOption(S_mode,
                            [kind |-> "value", optional |-> TRUE,
                             hasChoices |-> TRUE, choices |-> <<S_dev>>]),
                        BuilderOption(S_tags, [kind |-> "variadic"]),
                        BuilderOption(S_config, [kind |-> "inline"])>>,
          !.arguments = <<BuilderArgument(S_files, [kind |-> "variadic"])>>] >>

\* One optional value option without a default
ConfigTree ==
    << [NewConfig(S_serve) EXCEPT
          !.options = <<BuilderOption(S_config,
                            [kind |-> "value", optional |-> TRUE])>>,
          !.handlers = 1] >>

\* The --mode example of the README: choices and a default among them,
\* `optional` left as the builder sets it
ModeTree ==
    << [NewConfig(S_serve) EXCEPT
          !.options = <<BuilderOption(S_mode,
                            [kind |-> "value", hasChoices |-> TRUE,
                             choices |-> <<S_dev, S_prod>>,
                             default |-> Str(S_dev)])>>,
          !.handlers = 1] >>

\* Two inline options, the flag of the first a suffix of the second's
PutTree ==
    << [NewConfig(S_build) EXCEPT
          !.options = <<BuilderOption(S_put,
                            [kind |-> "inline", optional |-> TRUE]),
                        BuilderOption(S_output,
                            [kind |-> "inline", optional |-> TRUE])>>] >>

\* Two subcommands answering to the same alias
AliasClashTree ==
    << [NewConfig(S_git) EXCEPT !.subcommands = <<2, 3>>],
       [NewConfig(S_commit) EXCEPT !.aliases = <<S_c>>, !.handlers = 1],
       [NewConfig(S_push) EXCEPT !.aliases = <<S_c>>, !.handlers = 1] >>

\* A subcommand whose own declaration is invalid (--message declared twice)
\* under a parent whose own declaration is sound
BrokenSubTree ==
    << [NewConfig(S_git) EXCEPT
          !.options = <<BuilderOption(S_verbose, [kind |-> "flag"])>>,
          !.handlers = 1,
          !.subcommands = <<2>>],
       [NewConfig(S_commit) EXCEPT
          !.options = <<BuilderOption(S_message, [kind |-> "flag"]),
                        BuilderOption(S_message, [kind |-> "flag"])>>,
          !.handlers = 1] >>

\* Variadic defaults with one element inside the choices and one outside
MixedDefaultTree ==
    << [NewConfig(S_serve) EXCEPT
          !.options = <<BuilderOption(S_tags,
                            [kind |-> "variadic", optional |-> TRUE,
                             hasChoices |-> TRUE, choices |-> <<S_a, S_b>>,
                             default |-> List(<<S_a, S_bad>>)])>>,
          !.arguments = <<BuilderArgument(S_files,
                              [kind |-> "variadic", optional |-> TRUE,
                               hasChoices |-> TRUE, choices |-> <<S_a, S_b>>,
                               default |-> List(<<S_bad, S_b>>)])>>,
          !.handlers = 1] >>

\* A value option whose default is a list
ListDefaultTree ==
    << [NewConfig(S_build) EXCEPT
          !.options = <<BuilderOption(S_output,
                            [kind |-> "value", optional |-> TRUE,
                             default |-> List(<<S_a>>)])>>,
          !.handlers = 1] >>

\* A variadic argument followed by a value argument, next to a flag
SlotsTree ==
    << [NewConfig(S_build) EXCEPT
          !.options = <<O_dry_run>>,
          !.arguments = <<BuilderArgument(S_files, [kind |-> "variadic"]),
                          BuilderArgument(S_entry,
                              [kind |-> "value", optional |-> TRUE])>>,
          !.handlers = 1] >>

\* An optional inline option with choices and no default
BlankChoiceTree ==
    << [NewConfig(S_serve) EXCEPT
          !.options = <<BuilderOption(S_config,
                            [kind |-> "inline", optional |-> TRUE,
                             hasChoices |-> TRUE,
                             choices |-> <<S_dev, S_prod>>])>>,
          !.handlers = 1] >>

\* The long flag --o next to the short flag -o of another option
CanonicalClashTree ==
    << [NewConfig(S_build) EXCEPT
          !.options = <<BuilderOption(S_long_o, [kind |-> "flag"]),
                        BuilderOption(S_output,
                            [kind |-> "value", optional |-> TRUE,
                             shortFlag |-> S_o])>>,
          !.handlers = 1] >>

\* Declarations with a duplicated flag
DupLongTree ==
    << [NewConfig(S_build) EXCEPT
          !.options = <<BuilderOption(S_output,
                            [kind |-> "value", optional |-> TRUE]),
                        BuilderOption(S_output, [kind |-> "flag"])>>] >>

DupShortTree ==
    << [NewConfig(S_build) EXCEPT
          !.options = <<BuilderOption(S_output,
                            [kind |-> "flag", shortFlag |-> S_o]),
                        BuilderOption(S_mode,
                            [kind |-> "flag", shortFlag |-> S_o])>>] >>

ShortIsLongTree ==
    << [NewConfig(S_build) EXCEPT
          !.options = <<BuilderOption(S_o, [kind |-> "flag"]),
                        BuilderOption(S_output,
                            [kind |-> "flag", shortFlag |-> S_o])>>] >>

LongIsShortTree ==
    << [NewConfig(S_build) EXCEPT
          !.options = <<BuilderOption(S_output,
                            [kind |-> "flag", shortFlag |-> S_o]),
                        BuilderOption(S_o, [kind |-> "flag"])>>] >>

\* The user declares --help and --version with option()
UserHelpTree ==
    << [NewConfig(S_build) EXCEPT
          !.options = <<BuilderOption(T_help,
                            [kind |-> "flag", shortFlag |-> T_h]),
                        BuilderOption(T_version,
                            [kind |-> "flag", shortFlag |-> T_v])>>,
          !.arguments = <<A_entry>>,
          !.handlers = 1] >>

Scenarios ==
    { [tree |-> BuildTree(FALSE, FALSE),
       pool |-> {T_help, T_h, T_version, S_o, S_dry_run, S_x, T_sep}],
      [tree |-> BuildTree(TRUE, FALSE), pool |-> {T_help, T_v, S_o, S_x}],
      [tree |-> BuildTree(FALSE, TRUE), pool |-> {T_h, T_version, S_o, S_x}],
      [tree |-> BuildTree(TRUE, TRUE), pool |-> {T_help, T_version, S_x}],
      [tree |-> GitTree,
       pool |-> {S_commit, S_c, S_push, S_m, S_msg, S_verbose, T_help}],
      [tree |-> VariadicTree,
       pool |-> {S_build, S_push, S_tags, S_a, S_kv, T_sep}],
      [tree |-> ChoiceTree,
       pool |-> {S_mode, S_dev, S_bad, S_tags, S_a, S_region_a_b}],
      [tree |-> InlineTree,
       pool |-> {S_output_dist, S_output_a_b, S_output_a_eq_b, S_output_eq,
                 S_o_eq_x, S_output}],
      [tree |-> RequiredTree,
       pool |-> {S_tags, S_a, S_config_dev, S_x, S_mode, S_bad}],
      [tree |-> ConfigTree, pool |-> {S_config, S_x}],
      [tree |-> ModeTree, pool |-> {S_mode, S_prod, S_x}],
      [tree |-> PutTree, pool |-> {S_put_x, S_output_x, S_bogus}],
      [tree |-> AliasClashTree, pool |-> {S_c, S_push}],
      [tree |-> BrokenSubTree, pool |-> {S_verbose, S_commit, S_x}],
      [tree |-> MixedDefaultTree, pool |-> {S_tags, S_a, S_bad}],
      [tree |-> ListDefaultTree, pool |-> {S_output, S_x}],
      [tree |-> SlotsTree, pool |-> {S_a, S_b, S_dry_run}],
      [tree |-> BlankChoiceTree,
       pool |-> {S_config_dev, S_config_bad, S_config_eq}],
      [tree |-> CanonicalClashTree, pool |-> {S_o, S_long_o, S_x}],
      [tree |-> DupLongTree, pool |-> {T_help, S_bogus, S_x}],
      [tree |-> DupShortTree, pool |-> {T_help, S_bogus, S_x}],
      [tree |-> ShortIsLongTree, pool |-> {T_help, S_bogus, S_x}],
      [tree |-> LongIsShortTree, pool |-> {T_help, S_bogus, S_x}],
      [tree |-> UserHelpTree, pool |-> {T_help, T_v, S_x}] }

\* ------------------------------------------------------------------------
\* State
\* ------------------------------------------------------------------------

VARIABLES
    cmds,          \* the command tree: each command's #config
    argv,          \* the tokens the caller passes
    pc,            \* where control is
    call,          \* the entry point called: "parse" or "run"
    level,         \* the command whose configuration is being parsed
    tokens,        \* the tokens parameter of the running parseRuntime
    st,            \* the locals of the running parseRuntime
    input,         \* runner.ts: the module-level `input`
    commandNames,  \* runner.ts: the module-level `commandNames`
    hpos,          \* runner: index of the next handler of this level
    handled,       \* the handler calls made: [cmd, h, input, nth, own]
    shown,         \* what was printed: "help" or "version"
    rt,            \* the result of parsing the serialized result again
    nth,           \* the number of parse/run calls made so far
    own,           \* the parse results of the levels of the running call
    prev,          \* the call before the running one: [call, argv, st]
    running        \* the handler calls (indices of handled) not yet settled

vars ==
    <<cmds, argv, pc, call, level, tokens, st, input, commandNames, hpos,
      handled, shown, rt, nth, own, prev, running>>

K_help == kebabToCamelCase(T_help)

K_version == kebabToCamelCase(T_version)

\* No level of the call has parsed anything yet
NothingParsed == <<>>

NoCall == [call |-> "none", argv |-> <<>>, st |-> ScanStart]

\* The caller may call parse or run: no call is in progress, and fewer than
\* MaxCalls calls were made
Callable ==
    \/ pc = "idle"
    \/ pc \in {"returned", "reparsed", "done", "failed"} /\ nth < MaxCalls

\* The tokens the caller may pass: any list at first; for a later call the
\* same tokens again, or none
CallerTokens == IF nth = 0 THEN {argv} ELSE {argv, <<>>}

\* What is the same for parse and run when a call starts
CallStarts(entry) ==
    /\ Callable
    /\ call' = entry
    /\ \E t \in CallerTokens : argv' = t /\ tokens' = t
    /\ level' = 1
    /\ pc' = "validate"
    /\ nth' = nth + 1
    /\ own' = NothingParsed
    /\ prev' = [call |-> call, argv |-> argv, st |-> st]

Init ==
    /\ \E sc \in Scenarios :
           /\ cmds = sc.tree
           /\ argv \in TokenLists(sc.pool, MaxTokens)
    /\ pc = "idle"
    /\ call = "none"
    /\ level = 1
    /\ tokens = <<>>
    /\ st = ScanStart
    /\ input = EmptyInput
    /\ commandNames = <<>>
    /\ hpos = 0
    /\ handled = <<>>
    /\ shown = <<>>
    /\ rt = ScanStart
    /\ nth = 0
    /\ own = NothingParsed
    /\ prev = NoCall
    /\ running = {}

\* The two option() calls at the head of Command.parse
WithBuiltins(config) ==
    LET withHelp ==
            IF ~config.hidden.help
            THEN Append(config.options,
                        BuilderOption(T_help,
                            [kind |-> "flag", shortFlag |-> T_h]))
            ELSE config.options
        withVersion ==
            IF ~config.hidden.version
            THEN Append(withHelp,
                        BuilderOption(T_version,
                            [kind |-> "flag", shortFlag |-> T_v]))
            ELSE withHelp
    IN [config EXCEPT !.options = withVersion]

\* Command.parse(tokens), up to the call of parseRuntime
CommandParse ==
    /\ CallStarts("parse")
    /\ cmds' = [cmds EXCEPT ![1] = WithBuiltins(cmds[1])]
    /\ UNCHANGED <<st, input, commandNames, hpos, handled, shown, rt,
                   running>>

\* Command.run(tokens): runner(this[$config](), tokens), up to the call of
\* parseRuntime
CommandRun ==
    /\ CallStarts("run")
    /\ UNCHANGED <<cmds, st, input, commandNames, hpos, handled, shown, rt,
                   running>>

\* Where control goes when parseRuntime is in state s
PcAfter(s) ==
    CASE s.phase = "failed" -> "failed"
      [] s.phase = "returned" -> IF call = "parse" THEN "returned" ELSE "merge"
      [] OTHER -> "parse"

\* parseRuntime: validateConfig($config), then the locals are set up
Validate ==
    /\ pc = "validate"
    /\ LET e == validateConfig(cmds, cmds[level]) IN
       st' = IF e # NoError
             THEN [ScanStart EXCEPT !.phase = "failed", !.err = e]
             ELSE ScanStart
    /\ pc' = PcAfter(st')
    /\ UNCHANGED <<cmds, argv, call, level, tokens, input, commandNames,
                   hpos, handled, shown, rt, nth, own, prev, running>>

InScan == pc = "parse" /\ st.phase = "scan"

ScanAction(branch) ==
    /\ InScan
    /\ st.tokenIndex < Len(tokens)
    /\ ScanBranch(cmds, cmds[level], tokens, st) = branch
    /\ st' = ScanStep(cmds, cmds[level], tokens, st)
    /\ pc' = PcAfter(st')
    /\ UNCHANGED <<cmds, argv, call, level, tokens, input, commandNames,
                   hpos, handled, shown, rt, nth, own, prev, running>>

\* the loop test fails: the tokens are exhausted
ScanExhausted ==
    /\ InScan
    /\ st.tokenIndex >= Len(tokens)
    /\ st' = ScanStep(cmds, cmds[level], tokens, st)
    /\ pc' = PcAfter(st')
    /\ UNCHANGED <<cmds, argv, call, level, tokens, input, commandNames,
                   hpos, handled, shown, rt, nth, own, prev, running>>

ScanSeparatorToken == ScanAction("separator")

ScanOptionToken == ScanAction("option")

ScanSubcommandToken == ScanAction("subcommand")

ScanArgumentToken == ScanAction("argument")

\* the post-scan loops and the return
PostScanStep ==
    /\ pc = "parse"
    /\ st.phase = "post"
    /\ st' = PostScan(cmds[level], st)
    /\ pc' = PcAfter(st')
    /\ UNCHANGED <<cmds, argv, call, level, tokens, input, commandNames,
                   hpos, handled, shown, rt, nth, own, prev, running>>

\* Object.assign(target, source) on arrays: the indices of source are
\* written, the length of target never shrinks
ArrayAssign(target, source) ==
    source \o Slice(target, Len(source))

\* runner handing on what this level parsed, not the accumulated input
Merged_LevelOnly(parsed) ==
    [options |-> parsed.options,
     args |-> parsed.args,
     unparsed |-> ArrayAssign(input.unparsed, parsed.unparsed)]

\* runner: commandNames.push(name) and the three Object.assign
Merged(parsed) ==
    [options |-> ObjectAssign(input.options, parsed.options),
     args |-> ObjectAssign(input.args, parsed.args),
     unparsed |-> ArrayAssign(input.unparsed, parsed.unparsed)]

HelpAsked == Truthy(Get(st.input.options, K_help)) /\ ~cmds[level].hidden.help

VersionAsked ==
    Truthy(Get(st.input.options, K_version)) /\ ~cmds[level].hidden.version

RunnerMerge(next, print) ==
    /\ pc = "merge"
    /\ commandNames' = Append(commandNames, cmds[level].name)
    /\ input' = Merged(st.input)
    /\ shown' = shown \o print
    /\ hpos' = 0
    /\ pc' = next
    /\ own' = Append(own, st.input)
    /\ UNCHANGED <<cmds, argv, call, level, tokens, st, handled, rt, nth,
                   prev, running>>

\* if (parsed.options.help && !hidden.help) { showHelp(...); return }
RunnerShowHelp == HelpAsked /\ RunnerMerge("done", <<"help">>)

\* if (parsed.options.version && !hidden.version) { console.log; return }
RunnerShowVersion ==
    ~HelpAsked /\ VersionAsked /\ RunnerMerge("done", <<"version">>)

RunnerProceed == ~HelpAsked /\ ~VersionAsked /\ RunnerMerge("handlers", <<>>)

\* The runner going on to the next handler without waiting for the promise
\* of the one it has called
AfterHandlerCall_NotAwaited == "handlers"

\* `await handler(...)`: the runner is suspended until the promise the
\* handler returned settles
AfterHandlerCall == "awaiting"

\* handler(input, config) is called, for the next handler of the level
RunHandler ==
    /\ pc = "handlers"
    /\ hpos < cmds[level].handlers
    /\ handled' = Append(handled, [cmd |-> level, h |-> hpos, input |-> input,
                                   nth |-> nth, own |-> own])
    /\ hpos' = hpos + 1
    /\ running' = running \cup {Len(handled) + 1}
    /\ pc' = AfterHandlerCall
    /\ UNCHANGED <<cmds, argv, call, level, tokens, st, input,
                   commandNames, shown, rt, nth, own, prev>>

\* The asynchronous work of a handler completes: its promise settles, and a
\* runner suspended on it resumes in the for loop
HandlerSettles ==
    /\ \E i \in running : running' = running \ {i}
    /\ pc' = IF pc = "awaiting" THEN "handlers" ELSE pc
    /\ UNCHANGED <<cmds, argv, call, level, tokens, st, input, commandNames,
                   hpos, handled, shown, rt, nth, own, prev>>

\* subcommands.find(...) comparing the token with the names only
FindSubcommand_NameOnly(cs, config, unparsed) ==
    IF unparsed # <<>>
          /\ \E i \in DOMAIN config.subcommands :
                 cs[config.subcommands[i]].name = unparsed[1]
    THEN config.subcommands[
             CHOOSE i \in DOMAIN config.subcommands :
                 cs[config.subcommands[i]].name = unparsed[1]]
    ELSE 0

\* subcommands.find(...) on parsed.unparsed[0]: the index of the subcommand,
\* 0 when there is none
FindSubcommand(cs, config, unparsed) ==
    IF unparsed # <<>> /\ isSubcommand(cs, unparsed[1], config.subcommands)
    THEN LET hit(i) ==
                 \/ cs[config.subcommands[i]].name = unparsed[1]
                 \/ Contains(cs[config.subcommands[i]].aliases, unparsed[1])
         IN config.subcommands[
                CHOOSE i \in DOMAIN config.subcommands :
                    hit(i) /\ \A j \in 1..(i - 1) : ~hit(j)]
    ELSE 0

\* await runner(subcommand[$config](), parsed.unparsed.slice(1))
RunnerDispatch ==
    /\ pc = "handlers"
    /\ hpos >= cmds[level].handlers
    /\ FindSubcommand(cmds, cmds[level], st.input.unparsed) # 0
    /\ level' = FindSubcommand(cmds, cmds[level], st.input.unparsed)
    /\ tokens' = Slice(st.input.unparsed, 1)
    /\ pc' = "validate"
    /\ UNCHANGED <<cmds, argv, call, st, input, commandNames, hpos, handled,
                   shown, rt, nth, own, prev, running>>

\* no subcommand is named: runner returns
RunnerReturn ==
    /\ pc = "handlers"
    /\ hpos >= cmds[level].handlers
    /\ FindSubcommand(cmds, cmds[level], st.input.unparsed) = 0
    /\ pc' = "done"
    /\ UNCHANGED <<cmds, argv, call, level, tokens, st, input, commandNames,
                   hpos, handled, shown, rt, nth, own, prev, running>>

\* A parse result written back as CLI tokens: for each declared option
\* present in the result its long flag and its value(s) (an inline option as
\* the one token flag=value), then the positional values, both in
\* declaration order
SerializeOption(option, options) ==
    LET key == kebabToCamelCase(option.longFlag)
        v == Get(options, key)
    IN IF key \notin DOMAIN options THEN <<>>
       ELSE CASE option.kind = "flag" ->
                     IF Truthy(v) THEN <<option.longFlag>> ELSE <<>>
              [] option.kind = "inline" ->
                     <<option.longFlag \o <<"=">> \o v.s>>
              [] option.kind = "variadic" -> <<option.longFlag>> \o v.l
              [] OTHER ->
                     IF v.t = "str" THEN <<option.longFlag, v.s>>
                     ELSE <<option.longFlag>>

SerializeArgument(argument, args) ==
    LET key == kebabToCamelCase(argument.name)
        v == Get(args, key)
    IN IF key \notin DOMAIN args THEN <<>>
       ELSE IF isArray(v) THEN v.l
       ELSE IF v.t = "str" THEN <<v.s>> ELSE <<>>

RECURSIVE SerializeOptions(_, _, _)
SerializeOptions(optionDefs, i, options) ==
    IF i > Len(optionDefs) THEN <<>>
    ELSE SerializeOption(optionDefs[i], options)
             \o SerializeOptions(optionDefs, i + 1, options)

RECURSIVE SerializeArguments(_, _, _)
SerializeArguments(argDefs, i, args) ==
    IF i > Len(argDefs) THEN <<>>
    ELSE SerializeArgument(argDefs[i], args)
             \o SerializeArguments(argDefs, i + 1, args)

Serialize(config, result) ==
    SerializeOptions(config.options, 1, result.options)
        \o SerializeArguments(config.arguments, 1, result.args)

\* The result Command.parse returned is serialized and handed to
\* parseRuntime again
Reparse ==
    /\ pc = "returned"
    /\ rt' = parseRuntime(cmds, cmds[level], Serialize(cmds[level], st.input))
    /\ pc' = "reparsed"
    /\ UNCHANGED <<cmds, argv, call, level, tokens, st, input, commandNames,
                   hpos, handled, shown, nth, own, prev, running>>

Next ==
    \/ CommandParse
    \/ CommandRun
    \/ Validate
    \/ ScanExhausted
    \/ ScanSeparatorToken
    \/ ScanOptionToken
    \/ ScanSubcommandToken
    \/ ScanArgumentToken
    \/ PostScanStep
    \/ RunnerShowHelp
    \/ RunnerShowVersion
    \/ RunnerProceed
    \/ RunHandler
    \/ HandlerSettles
    \/ RunnerDispatch
    \/ RunnerReturn
    \/ Reparse

Spec == Init /\ [][Next]_vars

\* A step of parseRuntime: validateConfig, a pass through the while loop,
\* or the post-scan loops
ParseRuntimeStep ==
    \/ Validate
    \/ ScanExhausted
    \/ ScanSeparatorToken
    \/ ScanOptionToken
    \/ ScanSubcommandToken
    \/ ScanArgumentToken
    \/ PostScanStep

\* new Command(): nothing is declared yet and no tokens are chosen
Constructed ==
    /\ cmds = <<NewConfig(<<>>)>>
    /\ argv = <<>>
    /\ pc = "constructed"
    /\ call = "none"
    /\ level = 1
    /\ tokens = <<>>
    /\ st = ScanStart
    /\ input = EmptyInput
    /\ commandNames = <<>>
    /\ hpos = 0
    /\ handled = <<>>
    /\ shown = <<>>
    /\ rt = ScanStart
    /\ nth = 0
    /\ own = NothingParsed
    /\ prev = NoCall
    /\ running = {}

\* The builder chain declares the command tree, and the caller has its
\* tokens
Declare ==
    /\ pc = "constructed"
    /\ \E sc \in Scenarios :
           /\ cmds' = sc.tree
           /\ argv' \in TokenLists(sc.pool, MaxTokens)
    /\ pc' = "idle"
    /\ UNCHANGED <<call, level, tokens, st, input, commandNames, hpos,
                   handled, shown, rt, nth, own, prev, running>>

\* parseRuntime is executing for the level
InParseRuntime == pc \in {"validate", "parse"}

\* The program from the construction of the Command on. parseRuntime is
\* synchronous code: once called it keeps executing, so it does not stay
\* called forever without taking steps
LiveSpec ==
    /\ Constructed
    /\ [][Declare \/ Next]_vars
    /\ ([]<>(~InParseRuntime) \/ []<><<ParseRuntimeStep>>_vars)

\* ------------------------------------------------------------------------
\* Properties
\* ------------------------------------------------------------------------

\* validateConfig has accepted the declaration of the level being parsed
DeclarationAccepted ==
    pc \notin {"idle", "validate"} /\ st.err \notin DeclErrors

\* parseRuntime has returned or thrown for the current level
ParseOver == pc \notin {"idle", "validate", "parse"}

FirstTokenIn(set) == tokens # <<>> /\ tokens[1] \in set

\* From its first loop test on, the scan stood at token 0 and then returned
\* there with only the built-in flag set: no post-scan pass, no error
ShortCircuited(stop, key) ==
    \/ pc = "parse" /\ st = ScanStart
    \/ /\ pc \in {"returned", "reparsed"}
       /\ st.phase = "returned"
       /\ st.stop = stop
       /\ st.err = NoError
       /\ st.tokenIndex = 0
       /\ st.input =
              [EmptyInput EXCEPT !.options = (key :> True)]

\* C1 -- Help short-circuit: when Command.parse is called on a command whose
\* help is not hidden (and whose declaration validateConfig accepts) with
\* tokens whose first token is --help or -h, the scan stops at that token
\* and the call returns {options: {help: true}} without raising and without
\* the post-scan pass, whatever required fields are missing; likewise for
\* --version / -v when version is not hidden.
C1_HelpShortCircuit ==
    (call = "parse" /\ DeclarationAccepted) =>
        /\ (FirstTokenIn({T_help, T_h}) /\ ~cmds[1].hidden.help)
               => ShortCircuited("help", K_help)
        /\ (FirstTokenIn({T_version, T_v}) /\ ~cmds[1].hidden.version)
               => ShortCircuited("version", K_version)

\* Command.parse returned on --help although a required argument is missing
\* and further tokens follow
C1_Witness ==
    /\ call = "parse"
    /\ pc = "returned"
    /\ st.stop = "help"
    /\ Len(argv) > 1
    /\ \E i \in DOMAIN cmds[1].arguments :
           /\ ~cmds[1].arguments[i].optional
           /\ kebabToCamelCase(cmds[1].arguments[i].name)
                  \notin DOMAIN st.input.args

\* The level has a handler call on record
HandledAt(cmd) == \E i \in DOMAIN handled : handled[i].cmd = cmd

\* run on the single token tok ended by printing `what`, with no handler of
\* the level called, no dispatch and no error (a declaration error aside)
BuiltinHandled(what) ==
    \/ pc \in {"validate", "parse", "merge"}
    \/ pc = "failed" /\ st.err \in DeclErrors
    \/ pc = "done" /\ shown = <<what>> /\ ~HandledAt(level)

\* C2 -- Command.run handles the built-in flags by itself: on a command (or
\* a subcommand reached by dispatch) whose help is not hidden, run with the
\* tokens [--help] shows the help, calls no handler of that level,
\* dispatches nothing and raises nothing, without a user-declared --help
\* and without an earlier parse call; likewise [--version] prints the
\* version when version is not hidden.
C2_RunHandlesBuiltins ==
    call = "run" =>
        /\ (tokens = <<T_help>> /\ ~cmds[level].hidden.help)
               => BuiltinHandled("help")
        /\ (tokens = <<T_version>> /\ ~cmds[level].hidden.version)
               => BuiltinHandled("version")

\* The names and aliases a subcommand answers to
NamesOf(cs, id) == {cs[id].name} \cup Range(cs[id].aliases)

\* The subcommands of the level that answer to the token
SubcommandsNamed(token) ==
    { id \in Range(cmds[level].subcommands) : token \in NamesOf(cmds, id) }

\* The scan cursor stands on a token naming a subcommand of the level
AtSubcommandToken ==
    /\ InScan
    /\ st.tokenIndex < Len(tokens)
    /\ SubcommandsNamed(tokens[st.tokenIndex + 1]) # {}

\* The scan of the level stops at the cursor: nothing more is consumed and
\* the token with everything after it becomes unparsed
ScanStopsHere ==
    /\ st'.stop = "subcommand"
    /\ st'.phase \in {"post", "returned", "failed"}
    /\ st'.tokenIndex = st.tokenIndex
    /\ st'.input.args = st.input.args
    /\ st'.input.options = st.input.options
    /\ st'.input.unparsed = Slice(tokens, st.tokenIndex)

\* run is done with the handlers of a level whose scan stopped at a
\* subcommand token
ReadyToDispatch ==
    /\ pc = "handlers"
    /\ hpos >= cmds[level].handlers
    /\ st.stop = "subcommand"

\* The tokens after the subcommand token go to the matched subcommand
DispatchesToMatched ==
    /\ level' \in SubcommandsNamed(tokens[st.tokenIndex + 1])
    /\ tokens' = Slice(tokens, st.tokenIndex + 1)
    /\ pc' = "validate"
    /\ handled' = handled

\* Every value the level's parse produced is in the input of a handler call
CarriesParsed(entry) ==
    /\ \A k \in DOMAIN st.input.options :
           /\ k \in DOMAIN entry.input.options
           /\ entry.input.options[k] = st.input.options[k]
    /\ \A k \in DOMAIN st.input.args :
           /\ k \in DOMAIN entry.input.args
           /\ entry.input.args[k] = st.input.args[k]

\* A handler of the level is called, with the values parsed at the level
HandlerCalledWithParsed ==
    /\ Len(handled') = Len(handled) + 1
    /\ handled'[Len(handled')].cmd = level
    /\ CarriesParsed(handled'[Len(handled')])

\* git run on [c, -m, msg]
CommitExample == cmds = GitTree /\ call = "run" /\ argv = <<S_c, S_m, S_msg>>

\* Both commit handlers were called with options.message = msg
CommitHandled ==
    /\ pc = "done"
    /\ level = 2
    /\ \A h \in 0..(cmds[2].handlers - 1) :
           \E i \in DOMAIN handled :
               /\ handled[i].cmd = 2
               /\ handled[i].h = h
               /\ Get(handled[i].input.options, kebabToCamelCase(S_message))
                      = Str(S_msg)

\* C3 -- Subcommand dispatch: when the scan of a level reaches, as a token
\* in its own right, a token equal to the name or an alias of a subcommand
\* of that level, the scan of the level stops there (the token and the rest
\* become unparsed); run, once the handlers of the level are through, parses
\* the tokens after that token against the matched subcommand and calls
\* that subcommand's handlers with the values parsed there; git with
\* subcommand commit aliased c, run on [c, -m, msg], ends with the commit
\* handlers called with options.message = msg.
C3_SubcommandDispatch ==
    /\ [][AtSubcommandToken => ScanStopsHere]_vars
    /\ [][ReadyToDispatch => DispatchesToMatched]_vars
    /\ [][(pc = "handlers" /\ hpos < cmds[level].handlers)
              => HandlerCalledWithParsed]_vars
    /\ [](CommitExample => (pc # "failed" /\ (pc = "done" => CommitHandled)))

\* run dispatched on the alias and the commit handlers got the message
C3_Witness == CommitExample /\ CommitHandled

\* The declared fields of the level in the order the post-scan pass visits
\* them: the options, then the arguments
Fields ==
    [i \in 1..Len(cmds[level].options) |->
         [isOption |-> TRUE, decl |-> cmds[level].options[i],
          key |-> kebabToCamelCase(cmds[level].options[i].longFlag)]]
    \o
    [i \in 1..Len(cmds[level].arguments) |->
         [isOption |-> FALSE, decl |-> cmds[level].arguments[i],
          key |-> kebabToCamelCase(cmds[level].arguments[i].name)]]

\* What a result holds for a field
Holder(f, result) == IF f.isOption THEN result.options ELSE result.args

\* The result has no entry for the field
Absent(f, result) == f.key \notin DOMAIN Holder(f, result)

\* A field that must be given: not optional, and so without a default
MustBeGiven(f) == ~f.decl.optional /\ ~Truthy(f.decl.default)

\* The same, restricted to what the post-scan pass looks at: every
\* argument, and the options of kind value, inline and variadic
MustBeGivenValue(f) ==
    MustBeGiven(f) /\ (f.isOption => f.decl.kind # "flag")

\* The elements of what the scan produced for a field
Elements(f, result) ==
    IF Absent(f, result) THEN {}
    ELSE LET v == Holder(f, result)[f.key] IN
         CASE v.t = "list" -> Range(v.l)
           [] v.t = "str" /\ v.s # <<>> -> {v.s}
           [] OTHER -> {}

\* The scan produced for the field a value outside its choices
OutsideChoices(f, result) ==
    /\ f.decl.hasChoices
    /\ f.isOption => f.decl.kind # "flag"
    /\ ~(Elements(f, result) \subseteq Range(f.decl.choices))

\* The scan of the level ended without a help/version short-circuit and
\* without a token error: the post-scan pass is next
ScanOver == pc = "parse" /\ st.phase = "post"

\* parseRuntime returned a result that is not a help/version short-circuit
ReturnedResult ==
    /\ st.phase = "returned"
    /\ st.stop \notin {"help", "version"}
    /\ pc \in {"returned", "reparsed", "merge", "handlers", "awaiting", "done"}

\* The step throws a required-field error, or the invalid-choice error of
\* a field declared before field i
FailsRequired(i) ==
    /\ st'.phase = "failed"
    /\ pc' = "failed"
    /\ st'.err \in RequiredErrors \cup ChoiceErrors
    /\ (\A j \in 1..(i - 1) : ~OutsideChoices(Fields[j], st.input))
           => st'.err \in RequiredErrors

\* C4 -- Required enforcement (as the code has it): for every valid
\* declaration with a non-optional, default-less argument or option of kind
\* value, inline or variadic, parseRuntime on a token list that omits the
\* field and does not short-circuit on help/version never returns a result:
\* when the scan raises no token error, the post-scan pass raises a
\* required-field-missing error, unless a field declared earlier holds a
\* value outside its choices and its invalid-choice error comes first. No
\* returned result lacks such a field.
C4_RequiredEnforcement ==
    /\ [][\A i \in DOMAIN Fields :
              (ScanOver /\ MustBeGivenValue(Fields[i])
                        /\ Absent(Fields[i], st.input))
                  => FailsRequired(i)]_vars
    /\ [](ReturnedResult =>
              \A i \in DOMAIN Fields :
                  MustBeGivenValue(Fields[i]) => ~Absent(Fields[i], st.input))

\* A required variadic option was left out of a non-empty token list and
\* the parse failed on it
C4_Witness ==
    /\ pc = "failed"
    /\ st.err = "Required option is missing"
    /\ st.tokenIndex = Len(tokens)
    /\ tokens # <<>>
    /\ \E i \in DOMAIN cmds[level].options :
           /\ cmds[level].options[i].kind = "variadic"
           /\ ~cmds[level].options[i].optional
           /\ \A t \in DOMAIN tokens :
                  ~StartsWith(tokens[t], cmds[level].options[i].longFlag)

\* C4 as the specification words it: a non-optional, default-less option
\* of any kind, or argument, left out of the tokens is never absent from a
\* returned result (the parse fails with required-field-missing instead).
C4_RequiredAnyKind ==
    ReturnedResult =>
        \A i \in DOMAIN Fields :
            MustBeGiven(Fields[i]) => ~Absent(Fields[i], st.input)

\* A token that is neither option-shaped nor the name of a subcommand of
\* the level
Plain(token) ==
    /\ token # <<>>
    /\ token[1] # "-"
    /\ "=" \notin Range(token)
    /\ SubcommandsNamed(token) = {}

\* The flags an option answers to
FlagsOf(option) ==
    {option.longFlag}
        \cup (IF option.shortFlag = <<>> THEN {} ELSE {option.shortFlag})

NoSupply == [given |-> FALSE, values |-> <<>>]

\* What the tokens of the level supply for field i when they are, as a
\* whole, one well-formed supply of that field and of nothing else
SoleSupply(i) ==
    LET f == Fields[i]
        all(ts) == \A k \in DOMAIN ts : Plain(ts[k])
    IN CASE f.isOption /\ f.decl.kind = "value" ->
                IF Len(tokens) = 2 /\ tokens[1] \in FlagsOf(f.decl)
                      /\ Plain(tokens[2])
                THEN [given |-> TRUE, values |-> <<tokens[2]>>]
                ELSE NoSupply
         [] f.isOption /\ f.decl.kind = "inline" ->
                IF Len(tokens) = 1
                      /\ \E flag \in FlagsOf(f.decl) :
                             /\ StartsWith(tokens[1], flag \o <<"=">>)
                             /\ Len(tokens[1]) > Len(flag) + 1
                THEN LET flag == CHOOSE fl \in FlagsOf(f.decl) :
                                     StartsWith(tokens[1], fl \o <<"=">>)
                     IN [given |-> TRUE,
                         values |-> <<Slice(tokens[1], Len(flag) + 1)>>]
                ELSE NoSupply
         [] f.isOption /\ f.decl.kind = "variadic" ->
                IF Len(tokens) >= 2 /\ tokens[1] \in FlagsOf(f.decl)
                      /\ all(Tail(tokens))
                THEN [given |-> TRUE, values |-> Tail(tokens)]
                ELSE NoSupply
         [] ~f.isOption /\ i = Len(cmds[level].options) + 1 ->
                IF tokens # <<>> /\ all(tokens)
                      /\ (f.decl.kind = "variadic" \/ Len(tokens) = 1)
                THEN [given |-> TRUE, values |-> tokens]
                ELSE NoSupply
         [] OTHER -> NoSupply

\* The value a supply stands for in a result
SuppliedValue(f, supply) ==
    IF f.decl.kind = "variadic" THEN List(supply.values)
    ELSE Str(supply.values[1])

\* Every field of the level is optional
AllOptional == \A i \in DOMAIN Fields : Fields[i].decl.optional

\* The call of parseRuntime for the level ended, on an accepted declaration
ParsedLevel ==
    /\ pc \in {"returned", "reparsed", "merge", "handlers", "awaiting", "done", "failed"}
    /\ st.err \notin DeclErrors

\* C5 -- Choice enforcement: for a declaration whose fields are all
\* optional, when the tokens supply one field that declares choices (a
\* value, inline or variadic option, or an argument), the parse fails with
\* an invalid-choice error if a supplied value is outside the choices, and
\* otherwise succeeds with the supplied value(s) in the result.
C5_ChoiceEnforcement ==
    (ParsedLevel /\ AllOptional) =>
        \A i \in DOMAIN Fields :
            (Fields[i].decl.hasChoices /\ SoleSupply(i).given) =>
                IF Range(SoleSupply(i).values)
                       \subseteq Range(Fields[i].decl.choices)
                THEN /\ st.phase = "returned"
                     /\ ~Absent(Fields[i], st.input)
                     /\ Holder(Fields[i], st.input)[Fields[i].key]
                            = SuppliedValue(Fields[i], SoleSupply(i))
                ELSE /\ st.phase = "failed"
                     /\ st.err \in ChoiceErrors

\* Every field of the level is optional and has a default
AllOptionalWithDefault ==
    \A i \in DOMAIN Fields :
        Fields[i].decl.optional /\ Truthy(Fields[i].decl.default)

\* The canonical keys of the declared options (TRUE) or arguments (FALSE)
KeysOf(ofOptions) ==
    { Fields[i].key : i \in { j \in DOMAIN Fields :
                                 Fields[j].isOption = ofOptions } }

\* Each declared key mapped to the default of its declaration
DefaultsOf(ofOptions) ==
    [k \in KeysOf(ofOptions) |->
        LET i == CHOOSE j \in DOMAIN Fields :
                     Fields[j].isOption = ofOptions /\ Fields[j].key = k
        IN Fields[i].decl.default]

HasVariadicOption(result) ==
    \E i \in DOMAIN Fields :
        /\ Fields[i].isOption
        /\ Fields[i].decl.kind = "variadic"
        /\ ~Absent(Fields[i], result)

\* C7 -- Round trip: when a parse returned a result R (here: with all
\* tokens consumed, nothing unparsed and no variadic option involved), the
\* tokens obtained by serializing R (each option's long flag with its
\* value, then the positional values in declaration order) parse
\* successfully to a result equal to R.
C7_RoundTrip ==
    (/\ pc = "reparsed"
     /\ st.stop = "exhausted"
     /\ st.input.unparsed = <<>>
     /\ ~HasVariadicOption(st.input))
        => (rt.phase = "returned" /\ rt.input = st.input)

\* The length of the longest run of plain tokens at the head of ts
RunLength(ts) ==
    CHOOSE n \in 0..Len(ts) :
        /\ \A k \in 1..n : Plain(ts[k])
        /\ n < Len(ts) => ~Plain(ts[n + 1])

\* The longest run of plain tokens at the head of ts
LongestRun(ts) == SubSeq(ts, 1, RunLength(ts))

\* The scan cursor stands on the flag of the variadic option i
AtVariadicOption(i) ==
    /\ InScan
    /\ st.tokenIndex < Len(tokens)
    /\ cmds[level].options[i].kind = "variadic"
    /\ tokens[st.tokenIndex + 1] \in FlagsOf(cmds[level].options[i])

\* The scan cursor stands on the first candidate of a variadic argument
AtVariadicArgument ==
    /\ InScan
    /\ st.tokenIndex < Len(tokens)
    /\ Plain(tokens[st.tokenIndex + 1])
    /\ st.argIndex < Len(cmds[level].arguments)
    /\ cmds[level].arguments[st.argIndex + 1].kind = "variadic"

\* The step stores `run` under `key` and moves the cursor behind it
Collects(holder, key, run, skipped) ==
    /\ st'.phase = "scan"
    /\ key \in DOMAIN holder
    /\ holder[key] = List(run)
    /\ st'.tokenIndex = st.tokenIndex + skipped + Len(run)

\* run with a variadic argument and the subcommand push, on [build, push]
PushExample ==
    /\ argv = <<S_build, S_push>>
    /\ tokens = argv
    /\ level = 1
    /\ cmds[1].arguments = VariadicTree[1].arguments
    /\ cmds[1].subcommands = VariadicTree[1].subcommands
    /\ cmds[2].name = S_push

\* The argument is [build] and push is left unparsed
PushLeftUnparsed ==
    /\ st.phase = "returned"
    /\ Get(st.input.args, kebabToCamelCase(S_files)) = List(<<S_build>>)
    /\ st.input.unparsed = <<S_push>>

\* C8 -- Variadic boundary: a variadic option or argument collects exactly
\* the longest run of consecutive tokens, from its first candidate token
\* on, in which no token is option-shaped (starts with - or contains =)
\* and none is the name or an alias of a subcommand of the level; the
\* stopping token is not consumed: the cursor is left on it. With a
\* variadic argument and the subcommand push, [build, push] gives the
\* argument [build] and unparsed [push].
C8_VariadicBoundary ==
    /\ [][\A i \in DOMAIN cmds[level].options :
              AtVariadicOption(i) =>
                  Collects(st'.input.options,
                           kebabToCamelCase(cmds[level].options[i].longFlag),
                           LongestRun(Slice(tokens, st.tokenIndex + 1)), 1)]_vars
    /\ [][AtVariadicArgument =>
              Collects(st'.input.args,
                       kebabToCamelCase(
                           cmds[level].arguments[st.argIndex + 1].name),
                       LongestRun(Slice(tokens, st.tokenIndex)), 0)]_vars
    /\ []((PushExample /\ ParsedLevel) => PushLeftUnparsed)

\* [build, push] was parsed: the variadic argument stopped at push
C8_Witness == PushExample /\ ParsedLevel /\ PushLeftUnparsed

\* The substring of a token after its first "="
AfterFirstEquals(token) ==
    LET p == CHOOSE k \in DOMAIN token :
                 token[k] = "=" /\ \A j \in 1..(k - 1) : token[j] # "="
    IN SubSeq(token, p + 1, Len(token))

\* The scan cursor stands on a token <flag>=<v> of the inline option i
AtInlineToken(i) ==
    /\ InScan
    /\ st.tokenIndex < Len(tokens)
    /\ cmds[level].options[i].kind = "inline"
    /\ \E flag \in FlagsOf(cmds[level].options[i]) :
           StartsWith(tokens[st.tokenIndex + 1], flag \o <<"=">>)

\* C9 -- Inline option value: for an inline option, a token <flag>=<v>
\* yields as the option's value exactly the substring of the token after
\* its first "=", verbatim (whatever <v> contains, "-" and further "="
\* included), and consumes exactly one token; --output=dist/ gives
\* options.output = dist/.
C9_InlineValueVerbatim ==
    [][\A i \in DOMAIN cmds[level].options :
          AtInlineToken(i) =>
              LET key == kebabToCamelCase(cmds[level].options[i].longFlag)
              IN /\ st'.phase = "scan"
                 /\ st'.tokenIndex = st.tokenIndex + 1
                 /\ key \in DOMAIN st'.input.options
                 /\ st'.input.options[key]
                        = Str(AfterFirstEquals(tokens[st.tokenIndex + 1]))]_vars

\* Two options of the declaration share a long flag, share a short flag,
\* or the short flag of one is the long flag of another
DuplicateFlags(config) ==
    \E i, j \in DOMAIN config.options :
        /\ i # j
        /\ LET a == config.options[i]
               b == config.options[j]
           IN \/ a.longFlag = b.longFlag
              \/ a.shortFlag # <<>> /\ a.shortFlag = b.shortFlag
              \/ a.shortFlag # <<>> /\ a.shortFlag = b.longFlag

\* parseRuntime threw a declaration error with no token looked at
FailedBeforeTokens ==
    /\ pc = "failed"
    /\ st.phase = "failed"
    /\ st.err \in DeclErrors
    /\ st.tokenIndex = 0
    /\ st.argIndex = 0
    /\ st.input = EmptyInput

\* C10 -- Duplicate detection precedes token reading: when the declaration
\* parseRuntime is called on has two options sharing a long flag, sharing
\* a short flag, or one option's short flag equal to another's long flag,
\* the call fails with a declaration error whatever the tokens are (none,
\* [--help], tokens that would raise a token error), and the scan never
\* starts: no token is read before the failure.
C10_DuplicatesBeforeTokens ==
    (pc # "idle" /\ DuplicateFlags(cmds[level])) =>
        (pc = "validate" \/ FailedBeforeTokens)

\* A declaration with a duplicated flag was rejected although the first
\* token is one no option declares
C10_Witness ==
    /\ DuplicateFlags(cmds[level])
    /\ FailedBeforeTokens
    /\ tokens # <<>>
    /\ tokens[1] = S_bogus

\* Every entry of the object was produced by one of the levels: `objects`
\* holds, level by level, what each level parsed
ProducedBy(object, objects) ==
    \A k \in DOMAIN object :
        \E j \in DOMAIN objects :
            k \in DOMAIN objects[j] /\ objects[j][k] = object[k]

\* What the levels of a handler call's run parsed as options, as args
OwnOptions(entry) == [j \in DOMAIN entry.own |-> entry.own[j].options]

OwnArgs(entry) == [j \in DOMAIN entry.own |-> entry.own[j].args]

\* C11 -- Independent runs share no state: when run is called again after
\* an earlier run, the input passed to every handler of the later run holds
\* only args and options that the levels of the later run produced
\* themselves; no key or value parsed in the earlier run is visible.
C11_RunsShareNoState ==
    \A i \in DOMAIN handled :
        handled[i].nth > 1 =>
            /\ ProducedBy(handled[i].input.options, OwnOptions(handled[i]))
            /\ ProducedBy(handled[i].input.args, OwnArgs(handled[i]))

\* The number of options of the root command declared with the long flag
Declared(longFlag) ==
    Cardinality({ i \in DOMAIN cmds[1].options :
                      cmds[1].options[i].longFlag = longFlag })

\* parse was called again with the same tokens after a parse that returned,
\* and the later call is over
ParsedAgain ==
    /\ call = "parse"
    /\ prev.call = "parse"
    /\ prev.st.phase = "returned"
    /\ prev.argv = argv
    /\ pc \in {"returned", "reparsed", "failed"}

\* C12 -- Built-in options are appended exactly once: after a parse call
\* that returned, however many parse calls follow on the same command, its
\* option list holds at most one --help and at most one --version, so a
\* second parse call with the same tokens passes declaration validation
\* and returns the same result as the first.
C12_BuiltinsAppendedOnce ==
    (prev.call = "parse" /\ prev.st.phase = "returned") =>
        /\ Declared(T_help) <= 1
        /\ Declared(T_version) <= 1
        /\ ParsedAgain =>
               /\ st.phase = "returned"
               /\ st.input = prev.st.input

\* parseRuntime returned a result, short-circuited or not
Returned ==
    /\ st.phase = "returned"
    /\ pc \in {"returned", "reparsed", "merge", "handlers", "awaiting", "done"}

\* The shape of value a declaration's kind stands for
ShapeOf(kind) ==
    CASE kind = "flag" -> "bool"
      [] kind = "variadic" -> "list"
      [] OTHER -> "str"

\* C13 -- Kind contract of the result: in every result parseRuntime returns
\* for an accepted declaration, each key present in options or args holds
\* a value of the shape of its declaration's kind: a boolean for a flag, a
\* list of strings for a variadic option or argument, a defined string for
\* value and inline; values filled in from defaults and a value option
\* given as the last token included.
C13_KindContract ==
    Returned =>
        \A i \in DOMAIN Fields :
            ~Absent(Fields[i], st.input) =>
                Holder(Fields[i], st.input)[Fields[i].key].t
                    = ShapeOf(Fields[i].decl.kind)

\* The result's unparsed is the tail of the tokens from 0-based position k
TailFrom(k) == st.input.unparsed = Slice(tokens, k)

\* The scan stopped on the "--" at the cursor
StoppedAtSeparator ==
    /\ st.tokenIndex < Len(tokens)
    /\ tokens[st.tokenIndex + 1] = T_sep
    /\ TailFrom(st.tokenIndex + 1)

\* The scan stopped on the subcommand token at the cursor
StoppedAtSubcommand ==
    /\ st.tokenIndex < Len(tokens)
    /\ SubcommandsNamed(tokens[st.tokenIndex + 1]) # {}
    /\ TailFrom(st.tokenIndex)

\* C14 -- Unparsed-tail invariant: in every result parseRuntime returns,
\* unparsed is non-empty only if the scan stopped at a "--" separator or at
\* a token naming a subcommand of the level, and it is then exactly the
\* tokens after the "--", respectively the tokens from the subcommand
\* token on; when the tokens were exhausted or help/version cut the scan
\* short, unparsed is empty.
C14_UnparsedTail ==
    Returned =>
        /\ st.input.unparsed # <<>>
               => (StoppedAtSeparator \/ StoppedAtSubcommand)
        /\ st.stop = "separator" => StoppedAtSeparator
        /\ st.stop = "subcommand" => StoppedAtSubcommand
        /\ st.stop \in {"exhausted", "help", "version"}
               => st.input.unparsed = <<>>

\* A result came back with the tokens after a "--" as its unparsed tail
C14_Witness ==
    /\ Returned
    /\ StoppedAtSeparator
    /\ st.tokenIndex > 0
    /\ st.input.unparsed # <<>>

\* An option declared as the README declares --mode: kind value, choices,
\* a default that is one of them, `optional` not set
DeclaredLikeMode(option) ==
    /\ option.kind = "value"
    /\ option.hasChoices
    /\ option.default.t = "str"
    /\ option.default.s \in Range(option.choices)
    /\ ~option.optional

\* No token of the level is a flag of the option
NotGiven(option) ==
    \A k \in DOMAIN tokens :
        \A flag \in FlagsOf(option) : ~StartsWith(tokens[k], flag)

\* C15 -- Defaults as the README documents them: an option declared through
\* the builder with kind value, choices and a default among the choices,
\* `optional` not set (the --mode example), passes declaration validation,
\* and parsing tokens that omit the option yields the default as its
\* value.
C15_ReadmeDefault ==
    \A i \in DOMAIN cmds[level].options :
        (DeclaredLikeMode(cmds[level].options[i]) /\ nth = 1
             /\ pc \notin {"idle", "validate"}) =>
            /\ st.err \notin DeclErrors
            /\ (Returned /\ NotGiven(cmds[level].options[i])) =>
                   Get(st.input.options,
                       kebabToCamelCase(cmds[level].options[i].longFlag))
                       = cmds[level].options[i].default

\* The deepest level of a handler call's run that produced key k
Deepest(objects, k) ==
    CHOOSE j \in DOMAIN objects :
        /\ k \in DOMAIN objects[j]
        /\ \A m \in DOMAIN objects : k \in DOMAIN objects[m] => m <= j

\* The object holds every key the levels produced, each with the value of
\* the deepest level that produced it
Accumulates(object, objects) ==
    \A j \in DOMAIN objects :
        \A k \in DOMAIN objects[j] :
            /\ k \in DOMAIN object
            /\ object[k] = objects[Deepest(objects, k)][k]

\* C16 -- Accumulator threading: during one run, the input handed to the
\* handlers of a level holds every arg and option parsed at the ancestor
\* levels of that run together with the level's own values; the ancestors'
\* entries are as the ancestors parsed them, except that for a canonical
\* key produced at several levels the value of the deepest level is the
\* one visible.
C16_AccumulatorThreading ==
    \A i \in DOMAIN handled :
        /\ handled[i].own # <<>>
        /\ Accumulates(handled[i].input.options, OwnOptions(handled[i]))
        /\ Accumulates(handled[i].input.args, OwnArgs(handled[i]))

\* A subcommand's handler was called with a key produced at both levels,
\* with different values
C16_Witness ==
    \E i \in DOMAIN handled :
        /\ Len(handled[i].own) = 2
        /\ \E k \in DOMAIN handled[i].own[1].args :
               /\ k \in DOMAIN handled[i].own[2].args
               /\ handled[i].own[1].args[k] # handled[i].own[2].args[k]

\* The scan cursor stands on the flag of the value option i, and it is the
\* last token
AtValueFlagLast(i) ==
    /\ InScan
    /\ st.tokenIndex = Len(tokens) - 1
    /\ cmds[level].options[i].kind = "value"
    /\ tokens[Len(tokens)] \in FlagsOf(cmds[level].options[i])

\* A key of the object is present with an undefined value
HoldsUndefined(object) == \E k \in DOMAIN object : object[k] = Undefined

\* C17 -- A value option given as the last token, nothing following it,
\* makes the parse fail with an "unexpected option" error raised during
\* the scan, whether the option is optional or required; no result is
\* returned in which the option's key is present with an undefined value.
C17_ValueNeedsToken ==
    /\ [][\A i \in DOMAIN cmds[level].options :
              AtValueFlagLast(i) =>
                  (st'.phase = "failed" /\ st'.err = "Unexpected option")]_vars
    /\ [](Returned => ~HoldsUndefined(st.input.options))

\* The part of a token before its first "=", the whole token when it has
\* none
BeforeFirstEquals(token) ==
    IF "=" \in Range(token)
    THEN SubSeq(token, 1, Len(token) - Len(AfterFirstEquals(token)) - 1)
    ELSE token

\* The options whose normalized long or short flag equals the normalized
\* token (its part before "=")
OptionsEqualTo(token) ==
    LET norm == kebabToCamelCase(BeforeFirstEquals(token)) IN
    { i \in DOMAIN cmds[level].options :
          norm \in { kebabToCamelCase(flag) :
                         flag \in FlagsOf(cmds[level].options[i]) } }

\* The scan cursor stands on an option-shaped token
AtOptionToken ==
    /\ InScan
    /\ st.tokenIndex < Len(tokens)
    /\ tokens[st.tokenIndex + 1] # T_sep
    /\ \/ tokens[st.tokenIndex + 1][1] = "-"
       \/ "=" \in Range(tokens[st.tokenIndex + 1])

\* The step used option i: it stored a value under its key, or refused the
\* token's form for its kind
UsesOption(i) ==
    \/ st'.err = "Unexpected option"
    \/ /\ st'.err = NoError
       /\ kebabToCamelCase(cmds[level].options[i].longFlag)
              \in DOMAIN st'.input.options
       /\ \A k \in DOMAIN st'.input.options :
              k \in DOMAIN st.input.options
                  \/ k = kebabToCamelCase(cmds[level].options[i].longFlag)

\* C18 -- Option lookup is by equality of canonical keys: an option-shaped
\* token matches a declared option only if the normalized token, or for a
\* token with "=" its normalized part before the first "=", equals the
\* option's normalized long or short flag; of several matching options
\* the first declared is used; a token equal to none fails with an
\* unknown-option error (--output=x never matches an option --put).
C18_LookupByEquality ==
    [][AtOptionToken =>
          LET hits == OptionsEqualTo(tokens[st.tokenIndex + 1]) IN
          IF hits = {}
          THEN st'.phase = "failed" /\ st'.err = "Unknown option"
          ELSE UsesOption(CHOOSE i \in hits : \A j \in hits : i <= j)]_vars

\* The scan cursor stands on a "--"
AtSeparator ==
    /\ InScan
    /\ st.tokenIndex < Len(tokens)
    /\ tokens[st.tokenIndex + 1] = T_sep

\* The call of parseRuntime for the level is over and its scan had stopped
\* on a "--"
StoppedOnSeparator ==
    /\ pc \in {"returned", "reparsed", "merge", "handlers", "awaiting", "done", "failed"}
    /\ st.stop = "separator"

\* What parseRuntime makes of the tokens before the cursor alone
OfPrefix ==
    parseRuntime(cmds, cmds[level], SubSeq(tokens, 1, st.tokenIndex))

\* C19 -- "--" separator: when the scan reaches a token that is exactly
\* "--", scanning stops and unparsed becomes all tokens after it, in
\* order; none of them is read as an option or argument of the level: the
\* args, options and outcome are those of the tokens before the "--"
\* alone, no unknown-option or unexpected-argument error can come from the
\* tail, and the post-scan required/default/choice pass still runs on what
\* was scanned before the "--".
C19_Separator ==
    /\ [][AtSeparator =>
              /\ st'.phase = "post"
              /\ st'.err = NoError
              /\ st'.tokenIndex = st.tokenIndex
              /\ st'.input.unparsed = Slice(tokens, st.tokenIndex + 1)
              /\ st'.input.options = st.input.options
              /\ st'.input.args = st.input.args]_vars
    /\ [](StoppedOnSeparator =>
              /\ st.input.unparsed = Slice(tokens, st.tokenIndex + 1)
              /\ st.err \notin TokenErrors
              /\ st.phase = OfPrefix.phase
              /\ st.err = OfPrefix.err
              /\ st.input.options = OfPrefix.input.options
              /\ st.input.args = OfPrefix.input.args
              /\ Returned =>
                     \A i \in DOMAIN Fields :
                         MustBeGivenValue(Fields[i])
                             => ~Absent(Fields[i], st.input))

\* A result came back whose tail after the "--" holds a token that no
\* option of the level answers to
C19_Witness ==
    /\ StoppedOnSeparator
    /\ Returned
    /\ \E k \in DOMAIN st.input.unparsed :
           /\ "=" \in Range(st.input.unparsed[k])
           /\ OptionsEqualTo(st.input.unparsed[k]) = {}

\* Two subcommands of the command answer to a common name or alias
SiblingClash(config) ==
    \E i, j \in DOMAIN config.subcommands :
        /\ i # j
        /\ NamesOf(cmds, config.subcommands[i])
               \cap NamesOf(cmds, config.subcommands[j]) # {}

\* C20 -- Sibling subcommand identities are unique after validation:
\* declaration validation fails when, among the subcommands of a command,
\* a name or alias of one equals the name or an alias of another; once
\* validation has passed, every token names at most one subcommand of the
\* level.
C20_SiblingIdentitiesUnique ==
    pc \notin {"idle", "validate"} =>
        /\ SiblingClash(cmds[level]) => (pc = "failed" /\ st.err \in DeclErrors)
        /\ st.err \notin DeclErrors =>
               \A k \in DOMAIN tokens :
                   Cardinality(SubcommandsNamed(tokens[k])) <= 1

\* What validateConfig finds in a declaration by itself, the declarations of
\* its subcommands left aside
OwnDeclarationError(cs, config) ==
    LET e1 == validateName(config.name)
        e2 == validateAliases(config.aliases)
        e3 == validateArguments(config.arguments)
        e4 == validateOptions(config.options)
        subs == config.subcommands
    IN IF e1 # NoError THEN e1
       ELSE IF e2 # NoError THEN e2
       ELSE IF e3 # NoError THEN e3
       ELSE IF e4 # NoError THEN e4
       ELSE IF \E i \in DOMAIN subs : cs[subs[i]].name = <<>>
       THEN "Subcommand name is required"
       ELSE IF \E i, j \in DOMAIN subs :
                   i # j /\ cs[subs[i]].name = cs[subs[j]].name
       THEN "Duplicate subcommand name"
       ELSE NoError

\* The tokens of the level never name a subcommand of the level
ReachesNoSubcommand ==
    \A k \in DOMAIN tokens : SubcommandsNamed(tokens[k]) = {}

\* C21 -- Declaration validation is per level and lazy: parsing at a level
\* validates that level's own declaration only; a parse or run whose tokens
\* never reach a subcommand does not fail on that subcommand's declaration
\* (its options, arguments, aliases): a declaration error at a level is an
\* error of that level's own declaration.
C21_LazyValidation ==
    (pc = "failed" /\ st.err \in DeclErrors /\ ReachesNoSubcommand) =>
        OwnDeclarationError(cmds, cmds[level]) # NoError

\* A field to which the default-within-choices rule applies: an argument or
\* an option of kind value, inline or variadic, with choices and a default
ChoicesAndDefault(f) ==
    /\ f.isOption => f.decl.kind \in {"value", "inline", "variadic"}
    /\ f.decl.hasChoices
    /\ Truthy(f.decl.default)

\* Every element of the default, a scalar taken as a one-element list, is
\* among the choices
DefaultWithinChoices(f) ==
    Range(AsList(f.decl.default)) \subseteq Range(f.decl.choices)

\* C22 -- Default within choices at declaration time: for an argument or a
\* value/inline/variadic option that declares both choices and a default,
\* declaration validation accepts the declaration only if every element of
\* the default (a scalar default as a one-element list) is a member of the
\* choices; a variadic default with one element inside and one outside the
\* choices is rejected.
C22_DefaultWithinChoices ==
    DeclarationAccepted =>
        \A i \in DOMAIN Fields :
            ChoicesAndDefault(Fields[i]) => DefaultWithinChoices(Fields[i])

\* An argument declared with the kind, optional, default and choices of an
\* option
DeclaredAsArgument(option) ==
    BuilderArgument(S_x,
        [kind |-> option.kind, optional |-> option.optional,
         default |-> option.default, hasChoices |-> option.hasChoices,
         choices |-> option.choices])

\* C23 -- List defaults only for variadic: declaration validation accepts
\* no option of kind value or inline, and no argument of a kind other than
\* variadic, whose default is a list; and an accepted option of kind value,
\* variadic or inline passes the default/optional/choices rules of
\* arguments.
C23_ListDefaultOnlyVariadic ==
    DeclarationAccepted =>
        /\ \A i \in DOMAIN Fields :
               (Fields[i].decl.kind \in {"value", "inline"})
                   => ~isArray(Fields[i].decl.default)
        /\ \A i \in DOMAIN cmds[level].options :
               cmds[level].options[i].kind \in {"value", "variadic", "inline"}
                   => validateArguments(
                          <<DeclaredAsArgument(cmds[level].options[i])>>)
                          = NoError

\* The step calls a handler
HandlerStarts == Len(handled') = Len(handled) + 1

\* Every handler of a level was called in the running call
AllHandlersCalled(cmd) ==
    \A h \in 0..(cmds[cmd].handlers - 1) :
        \E i \in DOMAIN handled :
            handled[i].cmd = cmd /\ handled[i].h = h /\ handled[i].nth = nth

\* The handler calls of one level in one call are made in declaration order
InDeclarationOrder ==
    \A i \in DOMAIN handled :
        IF handled[i].h = 0
        THEN \A j \in 1..(i - 1) :
                 ~(handled[j].cmd = handled[i].cmd
                       /\ handled[j].nth = handled[i].nth)
        ELSE /\ i > 1
             /\ handled[i - 1].cmd = handled[i].cmd
             /\ handled[i - 1].nth = handled[i].nth
             /\ handled[i - 1].h = handled[i].h - 1

\* C24 -- Handler sequencing within one run: the handlers of a level are
\* called one at a time in declaration order, a handler being called only
\* when every handler called before it has settled; run goes on to the
\* matched subcommand (its declaration, its tokens, its handlers) only when
\* all handlers of the level were called and have settled; a handler is
\* called only on a returned parse result, and once a level has raised an
\* error no handler is called in that run, the handlers of the ancestor
\* levels having settled by then.
C24_HandlerSequencing ==
    /\ [](Cardinality(running) <= 1 /\ InDeclarationOrder)
    /\ [][HandlerStarts =>
              /\ running = {}
              /\ pc = "handlers" /\ st.phase = "returned"
              /\ handled'[Len(handled')].cmd = level
              /\ handled'[Len(handled')].h = hpos]_vars
    /\ [][(pc = "handlers" /\ pc' = "validate" /\ nth' = nth) =>
              (running = {} /\ AllHandlersCalled(level))]_vars
    /\ [](pc \in {"validate", "parse", "merge", "failed"} => running = {})
    /\ [][pc = "failed" =>
              (handled' = handled /\ (nth' = nth => pc' = "failed"))]_vars

\* The second handler of commit is running: the handler of git and the
\* first handler of commit were called before it and have settled
C24_Witness ==
    /\ pc = "awaiting"
    /\ level = 2
    /\ cmds[2].handlers = 2
    /\ Len(handled) >= 3
    /\ running = {Len(handled)}
    /\ handled[Len(handled)].h = 1
    /\ handled[Len(handled) - 2].cmd = 1

\* The scan cursor stands on a positional token
AtPositional ==
    /\ InScan
    /\ st.tokenIndex < Len(tokens)
    /\ Plain(tokens[st.tokenIndex + 1])

\* The canonical keys of the first k declared arguments of the level
SlotKeys(k) ==
    { kebabToCamelCase(cmds[level].arguments[j].name) : j \in 1..k }

\* The step binds the token(s) at the cursor to the declared argument of
\* slot k (counted from 0) and moves the positional cursor to slot k + 1
BindsSlot(k) ==
    LET a == cmds[level].arguments[k + 1]
        key == kebabToCamelCase(a.name)
        run == LongestRun(Slice(tokens, st.tokenIndex))
        value == IF a.kind = "variadic" THEN List(run)
                 ELSE Str(tokens[st.tokenIndex + 1])
    IN /\ st'.phase = "scan"
       /\ st'.argIndex = k + 1
       /\ DOMAIN st'.input.args = DOMAIN st.input.args \cup {key}
       /\ st'.input.args[key] = value
       /\ \A other \in DOMAIN st.input.args \ {key} :
              st'.input.args[other] = st.input.args[other]
       /\ st'.input.options = st.input.options
       /\ st'.tokenIndex =
              st.tokenIndex + (IF a.kind = "variadic" THEN Len(run) ELSE 1)

\* C25 -- Positional slots: during one scan the k-th positional match
\* (counting from 0) is bound to the k-th declared argument, the positional
\* cursor advancing by exactly one per match, a variadic argument taking
\* one slot however many tokens it consumes; a positional token met with
\* the cursor past the last declared argument fails with an
\* unexpected-argument error; no other step of the scan (an option, the
\* separator, a subcommand) moves the positional cursor.
C25_PositionalSlots ==
    /\ [][AtPositional =>
              IF st.argIndex < Len(cmds[level].arguments)
              THEN BindsSlot(st.argIndex)
              ELSE /\ st'.phase = "failed"
                   /\ st'.err = "Unexpected argument"
                   /\ st'.input = st.input]_vars
    /\ [][(InScan /\ ~AtPositional) => st'.argIndex = st.argIndex]_vars
    /\ [](pc = "parse" =>
              /\ st.argIndex <= Len(cmds[level].arguments)
              /\ DOMAIN st.input.args = SlotKeys(st.argIndex))
    /\ []((pc = "parse" /\ st.tokenIndex = 0) => st.argIndex = 0)

\* [a, --dry-run, b] on files (variadic) and entry: the variadic argument
\* took slot 0 with [a], the flag did not move the cursor, b went to entry
C25_Witness ==
    /\ cmds[1].arguments = SlotsTree[1].arguments
    /\ tokens = <<S_a, S_dry_run, S_b>>
    /\ st.phase = "returned"
    /\ st.argIndex = 2
    /\ Get(st.input.args, kebabToCamelCase(S_files)) = List(<<S_a>>)
    /\ Get(st.input.args, kebabToCamelCase(S_entry)) = Str(S_b)
    /\ Get(st.input.options, kebabToCamelCase(S_dry_run)) = True

\* The elements of the value a result holds for a field: those of a list,
\* a string as the one element, none for true, undefined or no entry
ResultElements(f, result) ==
    LET v == Get(Holder(f, result), f.key) IN
    CASE v.t = "list" -> Range(v.l)
      [] v.t = "str" -> {v.s}
      [] OTHER -> {}

\* A field whose values are held to its choices: an argument, or an option
\* of kind value, inline or variadic, that declares choices
HeldToChoices(f) ==
    /\ f.decl.hasChoices
    /\ f.isOption => f.decl.kind \in {"value", "inline", "variadic"}

\* C26 -- Result values respect choices: in every result parseRuntime
\* returns without a help/version short-circuit, for every option (value,
\* inline, variadic) and argument that declares choices, every element of
\* the field's value in the result, supplied by tokens or substituted from
\* the default, is a member of the choices.
C26_ResultWithinChoices ==
    ReturnedResult =>
        \A i \in DOMAIN Fields :
            HeldToChoices(Fields[i]) =>
                ResultElements(Fields[i], st.input)
                    \subseteq Range(Fields[i].decl.choices)

\* A pass through the scan loop that leaves the scan where it was: still
\* scanning, the token cursor not advanced
Stuck(after) == after.phase = "scan" /\ after.tokenIndex <= st.tokenIndex

\* C27 -- Scan progress and termination: every pass through the scan loop
\* either ends the scan (the tokens are exhausted, a break on -- or on a
\* subcommand, a return on help/version, a raised error) or advances the
\* token cursor by at least 1, also for a variadic option that collects no
\* value and for a variadic argument; the cursor never passes the end of
\* the tokens by more than the one value a value option reads; and every
\* call of parseRuntime terminates (returns or throws).
C27_ScanProgress ==
    /\ [](InScan => ~Stuck(ScanStep(cmds, cmds[level], tokens, st)))
    /\ [][InScan =>
              (st'.phase # "scan" \/ st'.tokenIndex >= st.tokenIndex + 1)]_vars
    /\ [](pc = "parse" => st.tokenIndex <= Len(tokens) + 1)
    /\ (InParseRuntime ~> ~InParseRuntime)

\* A variadic option that collected no value (its flag was the last token)
\* was stepped over and the parse returned
C27_Witness ==
    /\ st.phase = "returned"
    /\ pc # "parse"
    /\ Len(tokens) >= 2
    /\ st.tokenIndex = Len(tokens)
    /\ \E i \in DOMAIN cmds[level].options :
           /\ cmds[level].options[i].kind = "variadic"
           /\ tokens[Len(tokens)] = cmds[level].options[i].longFlag
           /\ Get(st.input.options,
                  kebabToCamelCase(cmds[level].options[i].longFlag))
                  = List(<<>>)

\* The canonical keys an option token may be matched by
CanonicalFlags(option) == { kebabToCamelCase(flag) : flag \in FlagsOf(option) }

\* C28 -- Canonical keys are unambiguous after validation: when declaration
\* validation accepts a command, no canonical form of a long or short flag
\* of one option equals that of another option (long --o against short -o,
\* --my-flag against --myFlag), and no two arguments share a canonical
\* key, so that an option token matches one declared option only and each
\* key of the result comes from one declaration.
C28_CanonicalKeysUnique ==
    DeclarationAccepted =>
        /\ \A i, j \in DOMAIN cmds[level].options :
               i # j => CanonicalFlags(cmds[level].options[i])
                            \cap CanonicalFlags(cmds[level].options[j]) = {}
        /\ \A i, j \in DOMAIN cmds[level].arguments :
               i # j => kebabToCamelCase(cmds[level].arguments[i].name)
                            # kebabToCamelCase(cmds[level].arguments[j].name)

\* What parseRuntime returned for the level whose handler the entry records
OwnResult(entry) == entry.own[Len(entry.own)]

\* C29 -- Handler view of the unparsed tail: at every level of a run the
\* unparsed list in the input handed to the level's handlers equals the
\* unparsed tail of that level's own parse result; it is empty for a
\* subcommand level whose tokens were all consumed and carries no tokens
\* left over from an ancestor level.
C29_HandlerSeesOwnTail ==
    \A i \in DOMAIN handled :
        handled[i].input.unparsed = OwnResult(handled[i]).unparsed

====
